---- MODULE Spec2Model ----
(***************************************************************************)
(* A model of the node-kuwe client library: the KuweAI / SelvianAI         *)
(* constructors, the credential-typed Integration base class, the Nango    *)
(* client it talks to (connection lookup and proxy), and the service       *)
(* integrations built on them (Gmail, Google Sheets, LinkedIn, OpenAI)     *)
(* with the external APIs they call.                                       *)
(*                                                                         *)
(* JavaScript values are modelled as follows.  A string is a TLA+ string.  *)
(* `undefined` is the value Undefined, which differs from every string of  *)
(* the data sets below.  An object is a function from the keys it has to   *)
(* their values, so that an absent key, a spread ({...a, k: v}) and the    *)
(* set of keys of an object are what they are in the code.                 *)
(***************************************************************************)
EXTENDS Naturals, Sequences, FiniteSets, TLC

VARIABLES env, client, instances, store, calls, mailbox

vars == <<env, client, instances, store, calls, mailbox>>

(***************************************************************************)
(* Bounds.                                                                 *)
(***************************************************************************)
\* the number of connections the credential store holds at one time
MaxConnections == 1

(***************************************************************************)
(* JavaScript values.                                                      *)
(***************************************************************************)
Undefined == "<undefined>"

\* o.k / o?.k of an object: the value of the key, undefined when absent
Get(o, k) == IF k \in DOMAIN o THEN o[k] ELSE Undefined

\* !!v for the values of the model (strings and undefined)
Truthy(v) == v # Undefined /\ v # ""

\* `${v}` for the values of the model
ToStr(v) == IF v = Undefined THEN "undefined" ELSE v

\* { ...a, ...b }
Spread(a, b) == [k \in (DOMAIN a) \cup (DOMAIN b) |-> IF k \in DOMAIN b THEN b[k] ELSE a[k]]

\* a || b
OrElse(a, b) == IF Truthy(a) THEN a ELSE b

\* new Error(message)
NewError(message) == [instanceofError |-> TRUE, message |-> message]

\* the two ways a call completes
Return(value) == [kind |-> "return", value |-> value]
Throw(thrown) == [kind |-> "throw", thrown |-> thrown]
Pending == [kind |-> "pending"]

(***************************************************************************)
(* AuthType and the credential records of the store.                       *)
(***************************************************************************)
AuthType == [OAUTH2 |-> "OAUTH2", OAUTH1 |-> "OAUTH1", BASIC |-> "BASIC", API_KEY |-> "API_KEY"]

KnownTags == {AuthType.OAUTH2, AuthType.OAUTH1, AuthType.BASIC, AuthType.API_KEY}

OAuth2Records ==
    { [type |-> "OAUTH2"],
      [type |-> "OAUTH2", access_token |-> ""],
      [type |-> "OAUTH2", access_token |-> "tok123"],
      [type |-> "OAUTH2", access_token |-> "tok456", refresh_token |-> "ref1", expires_at |-> "past"],
      [type |-> "OAUTH2", access_token |-> "tok789", refresh_token |-> "ref2", expires_at |-> "future"] }

OAuth1Records ==
    { [type |-> "OAUTH1", oauth_token_secret |-> "osecret"],
      [type |-> "OAUTH1", oauth_token |-> "", oauth_token_secret |-> "osecret"],
      [type |-> "OAUTH1", oauth_token |-> "otok", oauth_token_secret |-> "osecret"] }

BasicRecords ==
    { [type |-> "BASIC", username |-> "u", password |-> "p"],
      [type |-> "BASIC", username |-> "u", password |-> ""],
      [type |-> "BASIC", username |-> "", password |-> "p"],
      [type |-> "BASIC", username |-> "", password |-> ""],
      [type |-> "BASIC", username |-> "u"],
      [type |-> "BASIC", password |-> "p"] }

ApiKeyRecords ==
    { [type |-> "API_KEY"],
      [type |-> "API_KEY", apiKey |-> ""],
      [type |-> "API_KEY", apiKey |-> "key1"] }

\* records whose tag is none of the four: another tag of the credential
\* service, a tag in the wrong case, and a record without a tag
UnknownTagRecords ==
    { [type |-> "UNKNOWN_TAG"],
      [type |-> "oauth2", access_token |-> "tok123"],
      [access_token |-> "tok123"] }

CredentialRecords ==
    OAuth2Records \cup OAuth1Records \cup BasicRecords \cup ApiKeyRecords \cup UnknownTagRecords

\* the records of the end-to-end scenarios A, B and C
ScenarioRecords ==
    { [type |-> "OAUTH2", access_token |-> "tok123"],
      [type |-> "BASIC", username |-> "u", password |-> ""],
      [type |-> "UNKNOWN_TAG"] }

(***************************************************************************)
(* The Integration instances (base.ts) and the calls in flight on them.    *)
(***************************************************************************)
\* the Integration subclasses the KuweAI constructor instantiates, by the
\* field of KuweAI that holds them
IntegrationFields == {"linkedin", "googleSheets", "gmail"}

\* readonly name / providerConfigKey of each subclass
SubclassName ==
    [linkedin |-> "linkedin", googleSheets |-> "google-sheet", gmail |-> "google-mail"]

SubclassProviderConfigKey ==
    [linkedin |-> "linkedin", googleSheets |-> "google-sheet", gmail |-> "google-mail"]

\* new <Subclass>(nango, connectionId): the fields of the instance
NewIntegration(field, connectionId) ==
    [name |-> SubclassName[field],
     providerConfigKey |-> SubclassProviderConfigKey[field],
     connectionId |-> connectionId]

\* the callers that may have a call in flight at the same time
Callers == {"callerA", "callerB"}

NoArgs == << >>

Idle == [pc |-> "idle"]

\* an async call suspended at its await: the requests it has issued to the
\* Nango client so far, and the settlement of the promise it awaits
Awaiting(op, inst, config, request) ==
    [pc |-> "await", op |-> op, inst |-> inst, config |-> config,
     issued |-> <<request>>, settled |-> Pending, result |-> Pending]

\* the async call has completed with `outcome` (a return or a throw)
Completed(slot, outcome) == [slot EXCEPT !.pc = "done", !.result = outcome]

(***************************************************************************)
(* Integration.proxyRequest                                                *)
(***************************************************************************)
\* variant: the instance's values are spread first, so the caller's win
proxyRequestConfigCallerWins(self, config) ==
    Spread([providerConfigKey |-> self.providerConfigKey, connectionId |-> self.connectionId],
           config)

\* variant: the caller's headers are not forwarded
proxyRequestConfigDropsHeaders(self, config) ==
    LET full == Spread(Spread(config, [providerConfigKey |-> self.providerConfigKey]),
                       [connectionId |-> self.connectionId])
    IN  [k \in DOMAIN full \ {"headers"} |-> full[k]]

\* the argument of this.nango.proxy(...)
proxyRequestConfig(self, config) ==
    LET fullConfig == Spread(config, [providerConfigKey |-> self.providerConfigKey])
    IN  Spread(fullConfig, [connectionId |-> self.connectionId])

proxyRequestIssue(self, config) ==
    [fn |-> "proxy", config |-> proxyRequestConfig(self, config)]

\* variant: a rejected proxy call is issued once more
proxyRequestContinueRetry(self, slot) ==
    IF slot.settled.kind = "throw" /\ Len(slot.issued) = 1
    THEN [slot EXCEPT !.issued = Append(@, proxyRequestIssue(self, slot.config)),
                      !.settled = Pending]
    ELSE Completed(slot, slot.settled)

\* return await this.nango.proxy(...): the settlement of the promise is the
\* outcome of the call, a rejection is rethrown
proxyRequestContinue(self, slot) == Completed(slot, slot.settled)

(***************************************************************************)
(* Integration.getConnCredentials                                          *)
(***************************************************************************)
getConnCredentialsIssue(self) ==
    [fn |-> "getConnection",
     providerConfigKey |-> self.providerConfigKey,
     connectionId |-> self.connectionId]

\* variant: a failure of the lookup is caught and replaced by an error of
\* the library's own
getConnCredentialsOutcomeWrap(settled) ==
    IF settled.kind = "throw" THEN Throw(NewError("Connection not found"))
    ELSE Return(Get(settled.value, "credentials"))

\* const res = await this.nango.getConnection(...); return res.credentials
getConnCredentialsOutcome(settled) ==
    IF settled.kind = "throw" THEN settled
    ELSE Return(Get(settled.value, "credentials"))

getConnCredentialsContinue(self, slot) ==
    Completed(slot, getConnCredentialsOutcome(slot.settled))

(***************************************************************************)
(* Integration.getAuthToken                                                *)
(***************************************************************************)
\* variant: the OAuth1 case returns the token secret
getAuthTokenSwitchSecret(credentials) ==
    LET type == Get(credentials, "type")
    IN  CASE type = AuthType.OAUTH2 -> Return(Get(credentials, "access_token"))
          [] type = AuthType.OAUTH1 -> Return(Get(credentials, "oauth_token_secret"))
          [] type = AuthType.BASIC ->
                Return([username |-> Get(credentials, "username"),
                        password |-> Get(credentials, "password")])
          [] type = AuthType.API_KEY -> Return(Get(credentials, "apiKey"))
          [] OTHER ->
                Throw(NewError("Unsupported authentication type: " \o ToStr(type)))

\* variant: the switch has no default case, the method falls off its end
getAuthTokenSwitchNoDefault(credentials) ==
    LET type == Get(credentials, "type")
    IN  CASE type = AuthType.OAUTH2 -> Return(Get(credentials, "access_token"))
          [] type = AuthType.OAUTH1 -> Return(Get(credentials, "oauth_token"))
          [] type = AuthType.BASIC ->
                Return([username |-> Get(credentials, "username"),
                        password |-> Get(credentials, "password")])
          [] type = AuthType.API_KEY -> Return(Get(credentials, "apiKey"))
          [] OTHER -> Return(Undefined)

\* the switch on credentials.type
getAuthTokenSwitch(credentials) ==
    LET type == Get(credentials, "type")
    IN  CASE type = AuthType.OAUTH2 -> Return(Get(credentials, "access_token"))
          [] type = AuthType.OAUTH1 -> Return(Get(credentials, "oauth_token"))
          [] type = AuthType.BASIC ->
                Return([username |-> Get(credentials, "username"),
                        password |-> Get(credentials, "password")])
          [] type = AuthType.API_KEY -> Return(Get(credentials, "apiKey"))
          [] OTHER ->
                Throw(NewError("Unsupported authentication type: " \o ToStr(type)))

\* const credentials = await this.getConnCredentials(); switch ...
getAuthTokenOutcome(settled) ==
    LET credentials == getConnCredentialsOutcome(settled)
    IN  IF credentials.kind = "throw" THEN credentials
        ELSE getAuthTokenSwitch(credentials.value)

getAuthTokenContinue(self, slot) == Completed(slot, getAuthTokenOutcome(slot.settled))

(***************************************************************************)
(* Integration.validateConnection                                          *)
(***************************************************************************)
\* variant: the BASIC case rejects only when both fields are empty
validateConnectionSwitchBothEmpty(credentials) ==
    LET type == Get(credentials, "type")
    IN  CASE type = AuthType.OAUTH2 ->
                IF ~Truthy(Get(credentials, "access_token"))
                THEN Return([isValid |-> FALSE, error |-> "Missing access token"])
                ELSE Return([isValid |-> TRUE])
          [] type = AuthType.OAUTH1 ->
                IF ~Truthy(Get(credentials, "oauth_token"))
                THEN Return([isValid |-> FALSE, error |-> "Missing OAuth token"])
                ELSE Return([isValid |-> TRUE])
          [] type = AuthType.BASIC ->
                IF ~Truthy(Get(credentials, "username")) /\ ~Truthy(Get(credentials, "password"))
                THEN Return([isValid |-> FALSE, error |-> "Missing username or password"])
                ELSE Return([isValid |-> TRUE])
          [] type = AuthType.API_KEY ->
                IF ~Truthy(Get(credentials, "apiKey"))
                THEN Return([isValid |-> FALSE, error |-> "Missing API key"])
                ELSE Return([isValid |-> TRUE])
          [] OTHER -> Return([isValid |-> FALSE, error |-> "Unknown authentication type"])

\* variant: the OAuth1 case reports the OAuth2 reason
validateConnectionSwitchReason(credentials) ==
    LET type == Get(credentials, "type")
    IN  CASE type = AuthType.OAUTH2 ->
                IF ~Truthy(Get(credentials, "access_token"))
                THEN Return([isValid |-> FALSE, error |-> "Missing access token"])
                ELSE Return([isValid |-> TRUE])
          [] type = AuthType.OAUTH1 ->
                IF ~Truthy(Get(credentials, "oauth_token"))
                THEN Return([isValid |-> FALSE, error |-> "Missing access token"])
                ELSE Return([isValid |-> TRUE])
          [] type = AuthType.BASIC ->
                IF ~Truthy(Get(credentials, "username")) \/ ~Truthy(Get(credentials, "password"))
                THEN Return([isValid |-> FALSE, error |-> "Missing username or password"])
                ELSE Return([isValid |-> TRUE])
          [] type = AuthType.API_KEY ->
                IF ~Truthy(Get(credentials, "apiKey"))
                THEN Return([isValid |-> FALSE, error |-> "Missing API key"])
                ELSE Return([isValid |-> TRUE])
          [] OTHER -> Return([isValid |-> FALSE, error |-> "Unknown authentication type"])

\* variant: a tag outside the four is let through as valid
validateConnectionSwitchLenient(credentials) ==
    LET type == Get(credentials, "type")
    IN  CASE type = AuthType.OAUTH2 ->
                IF ~Truthy(Get(credentials, "access_token"))
                THEN Return([isValid |-> FALSE, error |-> "Missing access token"])
                ELSE Return([isValid |-> TRUE])
          [] type = AuthType.OAUTH1 ->
                IF ~Truthy(Get(credentials, "oauth_token"))
                THEN Return([isValid |-> FALSE, error |-> "Missing OAuth token"])
                ELSE Return([isValid |-> TRUE])
          [] type = AuthType.BASIC ->
                IF ~Truthy(Get(credentials, "username")) \/ ~Truthy(Get(credentials, "password"))
                THEN Return([isValid |-> FALSE, error |-> "Missing username or password"])
                ELSE Return([isValid |-> TRUE])
          [] type = AuthType.API_KEY ->
                IF ~Truthy(Get(credentials, "apiKey"))
                THEN Return([isValid |-> FALSE, error |-> "Missing API key"])
                ELSE Return([isValid |-> TRUE])
          [] OTHER -> Return([isValid |-> TRUE])

\* variant: the OAuth1 case looks at the token secret, not at the token
validateConnectionSwitchOAuthSecret(credentials) ==
    LET type == Get(credentials, "type")
    IN  CASE type = AuthType.OAUTH2 ->
                IF ~Truthy(Get(credentials, "access_token"))
                THEN Return([isValid |-> FALSE, error |-> "Missing access token"])
                ELSE Return([isValid |-> TRUE])
          [] type = AuthType.OAUTH1 ->
                IF ~Truthy(Get(credentials, "oauth_token_secret"))
                THEN Return([isValid |-> FALSE, error |-> "Missing OAuth token"])
                ELSE Return([isValid |-> TRUE])
          [] type = AuthType.BASIC ->
                IF ~Truthy(Get(credentials, "username")) \/ ~Truthy(Get(credentials, "password"))
                THEN Return([isValid |-> FALSE, error |-> "Missing username or password"])
                ELSE Return([isValid |-> TRUE])
          [] type = AuthType.API_KEY ->
                IF ~Truthy(Get(credentials, "apiKey"))
                THEN Return([isValid |-> FALSE, error |-> "Missing API key"])
                ELSE Return([isValid |-> TRUE])
          [] OTHER -> Return([isValid |-> FALSE, error |-> "Unknown authentication type"])

\* the switch on credentials.type and the return that follows it
validateConnectionSwitch(credentials) ==
    LET type == Get(credentials, "type")
    IN  CASE type = AuthType.OAUTH2 ->
                IF ~Truthy(Get(credentials, "access_token"))
                THEN Return([isValid |-> FALSE, error |-> "Missing access token"])
                ELSE Return([isValid |-> TRUE])
          [] type = AuthType.OAUTH1 ->
                IF ~Truthy(Get(credentials, "oauth_token"))
                THEN Return([isValid |-> FALSE, error |-> "Missing OAuth token"])
                ELSE Return([isValid |-> TRUE])
          [] type = AuthType.BASIC ->
                IF ~Truthy(Get(credentials, "username")) \/ ~Truthy(Get(credentials, "password"))
                THEN Return([isValid |-> FALSE, error |-> "Missing username or password"])
                ELSE Return([isValid |-> TRUE])
          [] type = AuthType.API_KEY ->
                IF ~Truthy(Get(credentials, "apiKey"))
                THEN Return([isValid |-> FALSE, error |-> "Missing API key"])
                ELSE Return([isValid |-> TRUE])
          [] OTHER -> Return([isValid |-> FALSE, error |-> "Unknown authentication type"])

\* catch (error) { return { isValid: false, error: ... } }
validateConnectionCatch(error) ==
    Return([isValid |-> FALSE,
            error |-> IF error.instanceofError THEN error.message ELSE "Unknown error"])

\* variant: no try/catch around the fetch, a failure of it is rethrown
validateConnectionOutcomeNoCatch(settled) ==
    LET credentials == getConnCredentialsOutcome(settled)
    IN  IF credentials.kind = "throw" THEN credentials
        ELSE validateConnectionSwitch(credentials.value)

\* try { const credentials = await this.getConnCredentials(); switch ... } catch ...
validateConnectionOutcome(settled) ==
    LET credentials == getConnCredentialsOutcome(settled)
    IN  IF credentials.kind = "throw" THEN validateConnectionCatch(credentials.thrown)
        ELSE validateConnectionSwitch(credentials.value)

\* variant: a failed fetch is tried a second time before it is reported
validateConnectionContinueRefetch(self, slot) ==
    IF slot.settled.kind = "throw" /\ Len(slot.issued) = 1
    THEN [slot EXCEPT !.issued = Append(@, getConnCredentialsIssue(self)), !.settled = Pending]
    ELSE Completed(slot, validateConnectionOutcome(slot.settled))

validateConnectionContinue(self, slot) ==
    Completed(slot, validateConnectionOutcome(slot.settled))

(***************************************************************************)
(* The Nango client: the connection lookup over the credential store and   *)
(* the proxy.  Both are external; the model lets them answer in every way  *)
(* the interface allows.                                                   *)
(***************************************************************************)
ConnectionIds == {"c1", "c2"}

ProviderConfigKeys == {SubclassProviderConfigKey[f] : f \in IntegrationFields}

\* the key under which the store holds a connection
ConnectionKeys == ProviderConfigKeys \X ConnectionIds

\* what a rejected promise may carry: an Error, or a value that is no Error
\* (a string, a plain object), of which the code reads nothing
NotFoundError == NewError("Request failed with status code 404")
NetworkError == NewError("Network Error")
UpstreamError == NewError("Request failed with status code 500")
NonErrorRejection == [instanceofError |-> FALSE]

\* nango.getConnection(providerConfigKey, connectionId) against the store `st`
getConnectionSettlements(request, st) ==
    LET key == <<request.providerConfigKey, request.connectionId>>
    IN  (IF key \in DOMAIN st
         THEN {Return([provider_config_key |-> request.providerConfigKey,
                       connection_id |-> request.connectionId,
                       credentials |-> st[key]])}
         ELSE {Throw(NotFoundError)})
        \cup {Throw(NetworkError), Throw(NonErrorRejection)}

ProxyResponses == {[status |-> "200", data |-> "body1"], [status |-> "204"]}

\* nango.proxy(config)
proxySettlements(request) ==
    {Return(r) : r \in ProxyResponses}
    \cup {Throw(UpstreamError), Throw(NetworkError)}

\* the request specs callers pass to proxyRequest; the last one carries
\* providerConfigKey and connectionId values of its own
ProxyConfigs ==
    { [baseUrlOverride |-> "https://api.linkedin.com/", method |-> "GET", endpoint |-> "/v2/userinfo"],
      [method |-> "POST", endpoint |-> "/v2/ugcPosts", data |-> "payload", headers |-> "hdrs"],
      [method |-> "PUT", endpoint |-> "/x", providerConfigKey |-> "other-provider", connectionId |-> "other-conn"] }

(***************************************************************************)
(* The calls on an Integration instance.  An async method runs to its      *)
(* await in one step (issuing its request); when the Nango client settles  *)
(* the promise the rest of the method runs to its return or throw.         *)
(***************************************************************************)
CanCall(c, i) == calls[c].pc = "idle" /\ i \in DOMAIN instances /\ i \in IntegrationFields

Resumable(c, op) == calls[c].pc = "await" /\ calls[c].op = op /\ calls[c].settled = Pending

LastIssued(slot) == slot.issued[Len(slot.issued)]

\* variant: a connectionId in the caller's config rebinds the instance
proxyRequestRebinding(c, i, config) ==
    /\ CanCall(c, i)
    /\ calls' = [calls EXCEPT ![c] =
                    Awaiting("proxyRequest", i, config, proxyRequestIssue(instances[i], config))]
    /\ instances' = [instances EXCEPT ![i].connectionId =
                        IF "connectionId" \in DOMAIN config THEN config.connectionId ELSE @]
    /\ UNCHANGED <<env, client, store, mailbox>>

proxyRequest(c, i, config) ==
    /\ CanCall(c, i)
    /\ calls' = [calls EXCEPT ![c] =
                    Awaiting("proxyRequest", i, config, proxyRequestIssue(instances[i], config))]
    /\ UNCHANGED <<env, client, instances, store, mailbox>>

proxyRequestResume(c) ==
    /\ Resumable(c, "proxyRequest")
    /\ \E settlement \in proxySettlements(LastIssued(calls[c])) :
          calls' = [calls EXCEPT ![c] =
                       proxyRequestContinue(instances[calls[c].inst], [calls[c] EXCEPT !.settled = settlement])]
    /\ UNCHANGED <<env, client, instances, store, mailbox>>

getConnCredentials(c, i) ==
    /\ CanCall(c, i)
    /\ calls' = [calls EXCEPT ![c] =
                    Awaiting("getConnCredentials", i, NoArgs, getConnCredentialsIssue(instances[i]))]
    /\ UNCHANGED <<env, client, instances, store, mailbox>>

getConnCredentialsResume(c) ==
    /\ Resumable(c, "getConnCredentials")
    /\ \E settlement \in getConnectionSettlements(LastIssued(calls[c]), store) :
          calls' = [calls EXCEPT ![c] =
                       getConnCredentialsContinue(instances[calls[c].inst], [calls[c] EXCEPT !.settled = settlement])]
    /\ UNCHANGED <<env, client, instances, store, mailbox>>

getAuthToken(c, i) ==
    /\ CanCall(c, i)
    /\ calls' = [calls EXCEPT ![c] =
                    Awaiting("getAuthToken", i, NoArgs, getConnCredentialsIssue(instances[i]))]
    /\ UNCHANGED <<env, client, instances, store, mailbox>>

\* variant: the instance keeps the outcome of its last token fetch
getAuthTokenResumeCaching(c) ==
    /\ Resumable(c, "getAuthToken")
    /\ \E settlement \in getConnectionSettlements(LastIssued(calls[c]), store) :
          /\ calls' = [calls EXCEPT ![c] =
                          getAuthTokenContinue(instances[calls[c].inst], [calls[c] EXCEPT !.settled = settlement])]
          /\ instances' = [instances EXCEPT ![calls[c].inst] =
                              Spread(@, [cachedToken |-> getAuthTokenOutcome(settlement)])]
    /\ UNCHANGED <<env, client, store, mailbox>>

\* variant: a record whose expires_at lies in the past is refreshed, the new
\* record written to the store and its token returned
getAuthTokenResumeRefreshing(c) ==
    /\ Resumable(c, "getAuthToken")
    /\ \E settlement \in getConnectionSettlements(LastIssued(calls[c]), store) :
          LET expired == /\ settlement.kind = "return"
                         /\ Get(settlement.value.credentials, "expires_at") = "past"
              refreshed == [type |-> "OAUTH2", access_token |-> "tok-refreshed",
                            refresh_token |-> "ref1", expires_at |-> "future"]
              key == <<LastIssued(calls[c]).providerConfigKey, LastIssued(calls[c]).connectionId>>
          IN  /\ calls' = [calls EXCEPT ![c] =
                              getAuthTokenContinue(instances[calls[c].inst],
                                  [calls[c] EXCEPT !.settled =
                                      IF expired
                                      THEN Return([settlement.value EXCEPT !.credentials = refreshed])
                                      ELSE settlement])]
              /\ store' = IF expired THEN [store EXCEPT ![key] = refreshed] ELSE store
    /\ UNCHANGED <<env, client, instances, mailbox>>

\* variant: the answer to one token fetch settles every token fetch in flight
getAuthTokenResumeShared(c) ==
    /\ Resumable(c, "getAuthToken")
    /\ \E settlement \in getConnectionSettlements(LastIssued(calls[c]), store) :
          calls' = [d \in Callers |->
                       IF calls[d].pc = "await" /\ calls[d].op = "getAuthToken"
                       THEN getAuthTokenContinue(instances[calls[d].inst],
                                                 [calls[d] EXCEPT !.settled = settlement])
                       ELSE calls[d]]
    /\ UNCHANGED <<env, client, instances, store, mailbox>>

getAuthTokenResume(c) ==
    /\ Resumable(c, "getAuthToken")
    /\ \E settlement \in getConnectionSettlements(LastIssued(calls[c]), store) :
          calls' = [calls EXCEPT ![c] =
                       getAuthTokenContinue(instances[calls[c].inst], [calls[c] EXCEPT !.settled = settlement])]
    /\ UNCHANGED <<env, client, instances, store, mailbox>>

validateConnection(c, i) ==
    /\ CanCall(c, i)
    /\ calls' = [calls EXCEPT ![c] =
                    Awaiting("validateConnection", i, NoArgs, getConnCredentialsIssue(instances[i]))]
    /\ UNCHANGED <<env, client, instances, store, mailbox>>

validateConnectionResume(c) ==
    /\ Resumable(c, "validateConnection")
    /\ \E settlement \in getConnectionSettlements(LastIssued(calls[c]), store) :
          calls' = [calls EXCEPT ![c] =
                       validateConnectionContinue(instances[calls[c].inst], [calls[c] EXCEPT !.settled = settlement])]
    /\ UNCHANGED <<env, client, instances, store, mailbox>>

\* the caller takes the outcome of its completed call
TakeResult(c) ==
    /\ calls[c].pc = "done"
    /\ calls' = [calls EXCEPT ![c] = Idle]
    /\ UNCHANGED <<env, client, instances, store, mailbox>>

(***************************************************************************)
(* The credential store changes outside the library: a user authorises a   *)
(* connection, the credential service replaces a record, a connection is   *)
(* removed.                                                                *)
(***************************************************************************)
StoreWrite(key, record) ==
    /\ Cardinality(DOMAIN store \cup {key}) <= MaxConnections
    /\ store' = [k \in DOMAIN store \cup {key} |-> IF k = key THEN record ELSE store[k]]
    /\ UNCHANGED <<env, client, instances, calls, mailbox>>

StoreRemove(key) ==
    /\ key \in DOMAIN store
    /\ store' = [k \in DOMAIN store \ {key} |-> store[k]]
    /\ UNCHANGED <<env, client, instances, calls, mailbox>>

(***************************************************************************)
(* Construction of the top-level client (app.ts) and of the OpenAI         *)
(* integration (openai.ts).                                                *)
(***************************************************************************)
EnvValues ==
    [NANGO_CONNECTION_ID |-> "c2", NANGO_SECRET_KEY |-> "s2", OPENAI_API_KEY |-> "sk-1"]

\* process.env: each of the three variables unset, set to "", or set
Envs ==
    { e \in UNION {[names -> {"", "c2", "s2", "sk-1"}] : names \in SUBSET (DOMAIN EnvValues)} :
        \A n \in DOMAIN e : e[n] \in {"", EnvValues[n]} }

\* the config argument: each of the two options absent, "", or given
Configs ==
    { cfg \in UNION {[names -> {"", "c1", "s1"}] : names \in SUBSET {"connectionId", "secretKey"}} :
        /\ "connectionId" \in DOMAIN cfg => cfg.connectionId \in {"", "c1"}
        /\ "secretKey" \in DOMAIN cfg => cfg.secretKey \in {"", "s1"} }

RequiredMessage ==
    "Nango connection ID and secret key are required. "
    \o "Provide them via constructor options or set NANGO_CONNECTION_ID and NANGO_SECRET_KEY environment variables."

OpenAIKeyMessage ==
    "OpenAI API key is required. Set OPENAI_API_KEY environment variable or pass it to the constructor."

\* new OpenAIIntegration(apiKey)
OpenAIIntegrationConstructor(apiKey, e) ==
    LET key == OrElse(apiKey, Get(e, "OPENAI_API_KEY"))
    IN  IF ~Truthy(key) THEN Throw(NewError(OpenAIKeyMessage))
        ELSE Return([name |-> "openai", client |-> [apiKey |-> key]])

\* variant: the environment variable takes precedence over the option
ResolveConnectionIdEnvFirst(config, e) ==
    OrElse(Get(e, "NANGO_CONNECTION_ID"), Get(config, "connectionId"))

\* the resolution of the two inputs at the head of both constructors
ResolveConnectionId(config, e) == OrElse(Get(config, "connectionId"), Get(e, "NANGO_CONNECTION_ID"))

ResolveSecretKey(config, e) == OrElse(Get(config, "secretKey"), Get(e, "NANGO_SECRET_KEY"))

\* variant: the check fails only when both inputs are missing
MissingRequiredBoth(connectionId, secretKey) == ~Truthy(connectionId) /\ ~Truthy(secretKey)

\* if (!connectionId || !secretKey) throw ...
MissingRequired(connectionId, secretKey) == ~Truthy(connectionId) \/ ~Truthy(secretKey)

\* new KuweAI(config): the outcome, the integrations constructed on the way
\* (in order) and the requests issued to the network on the way
KuweAIConstructor(config, e) ==
    LET connectionId == ResolveConnectionId(config, e)
        secretKey == ResolveSecretKey(config, e)
        openai == OpenAIIntegrationConstructor(Undefined, e)
        base == [connectionId |-> connectionId,
                 nango |-> [secretKey |-> secretKey],
                 linkedin |-> NewIntegration("linkedin", connectionId),
                 googleSheets |-> NewIntegration("googleSheets", connectionId),
                 gmail |-> NewIntegration("gmail", connectionId)]
    IN  IF MissingRequired(connectionId, secretKey)
        THEN [class |-> "KuweAI", outcome |-> Throw(NewError(RequiredMessage)),
              created |-> << >>, requests |-> << >>]
        ELSE IF openai.kind = "throw"
        THEN [class |-> "KuweAI", outcome |-> openai,
              created |-> <<"linkedin", "googleSheets", "gmail">>, requests |-> << >>]
        ELSE [class |-> "KuweAI", outcome |-> Return(Spread(base, [openai |-> openai.value])),
              created |-> <<"linkedin", "googleSheets", "gmail", "openai">>, requests |-> << >>]

\* new SelvianAI(config), the earlier client with the LinkedIn integration only
SelvianAIConstructor(config, e) ==
    LET connectionId == ResolveConnectionId(config, e)
        secretKey == ResolveSecretKey(config, e)
    IN  IF MissingRequired(connectionId, secretKey)
        THEN [class |-> "SelvianAI", outcome |-> Throw(NewError(RequiredMessage)),
              created |-> << >>, requests |-> << >>]
        ELSE [class |-> "SelvianAI",
              outcome |-> Return([connectionId |-> connectionId,
                                  nango |-> [secretKey |-> secretKey],
                                  linkedin |-> NewIntegration("linkedin", connectionId)]),
              created |-> <<"linkedin">>, requests |-> << >>]

NotConstructed == [class |-> "none"]

\* the integration fields of a constructed client; none when the constructor threw
InstancesOf(construction) ==
    IF construction.outcome.kind = "throw" THEN << >>
    ELSE [f \in DOMAIN construction.outcome.value \ {"connectionId", "nango"} |->
             construction.outcome.value[f]]

NewKuweAI(config) ==
    /\ client = NotConstructed
    /\ client' = Spread(KuweAIConstructor(config, env), [config |-> config])
    /\ instances' = InstancesOf(KuweAIConstructor(config, env))
    /\ UNCHANGED <<env, store, calls, mailbox>>

NewSelvianAI(config) ==
    /\ client = NotConstructed
    /\ client' = Spread(SelvianAIConstructor(config, env), [config |-> config])
    /\ instances' = InstancesOf(SelvianAIConstructor(config, env))
    /\ UNCHANGED <<env, store, calls, mailbox>>

(***************************************************************************)
(* Specifications.                                                         *)
(***************************************************************************)
\* SpecConstruct: the construction of a client from every config in every
\* environment
InitConstruct ==
    /\ env \in Envs
    /\ client = NotConstructed
    /\ instances = << >>
    /\ store = << >>
    /\ mailbox = << >>
    /\ calls = [c \in Callers |-> Idle]

NextConstruct ==
    \/ \E config \in Configs : NewKuweAI(config)
    \/ \E config \in Configs : NewSelvianAI(config)

SpecConstruct == InitConstruct /\ [][NextConstruct]_vars

\* the environment and the configs the integrations are exercised under;
\* the first config is the one of the end-to-end scenarios
ScenarioEnv == [OPENAI_API_KEY |-> "sk-1"]

ScenarioConfig == [connectionId |-> "c1", secretKey |-> "s1"]

ClientConfigs == {[connectionId |-> cid, secretKey |-> "s1"] : cid \in ConnectionIds}

\* the state after new KuweAI(config) returned, no call made yet
Constructed(config) ==
    /\ env = ScenarioEnv
    /\ client = Spread(KuweAIConstructor(config, env), [config |-> config])
    /\ instances = InstancesOf(KuweAIConstructor(config, env))
    /\ calls = [c \in Callers |-> Idle]

\* the stores that hold at most MaxConnections connections
Stores(keys, records) ==
    UNION {[ks -> records] : ks \in {x \in SUBSET keys : Cardinality(x) <= MaxConnections}}

LookupActions(c) ==
    \/ \E i \in IntegrationFields : getConnCredentials(c, i)
    \/ \E i \in IntegrationFields : getAuthToken(c, i)
    \/ \E i \in IntegrationFields : validateConnection(c, i)
    \/ getConnCredentialsResume(c)
    \/ getAuthTokenResume(c)
    \/ validateConnectionResume(c)

ProxyActions(c) ==
    \/ \E i \in IntegrationFields, config \in ProxyConfigs : proxyRequest(c, i, config)
    \/ proxyRequestResume(c)

\* Spec: concurrent calls on the integrations of the client of the scenarios,
\* while the records of the scenarios come and go in the client's connections
Init == Constructed(ScenarioConfig) /\ store = << >> /\ mailbox = << >>

Next ==
    \/ \E c \in Callers : LookupActions(c)
    \/ \E c \in Callers : ProxyActions(c)
    \/ \E c \in Callers : TakeResult(c)
    \/ \E key \in ProviderConfigKeys \X {ScenarioConfig.connectionId}, record \in ScenarioRecords :
          StoreWrite(key, record)
    \/ \E key \in ConnectionKeys : StoreRemove(key)

Spec == Init /\ [][Next]_vars

\* SpecRecords: the three credential methods, one call at a time, over every
\* store and every credential record
InitRecords ==
    /\ \E config \in ClientConfigs : Constructed(config)
    /\ store \in Stores(ConnectionKeys, CredentialRecords)
    /\ mailbox = << >>

NextRecords ==
    \/ LookupActions("callerA")
    \/ TakeResult("callerA")

SpecRecords == InitRecords /\ [][NextRecords]_vars

(***************************************************************************)
(* GmailIntegration (google-mail.ts).  Every method first builds a Gmail   *)
(* client from a freshly fetched access token (getGmailClient), then       *)
(* issues one request to the Gmail API and wraps the response.  An array   *)
(* argument is JsArray(items), a string argument that may also be an array *)
(* is JsString(value).                                                     *)
(***************************************************************************)
JsString(value) == [isArray |-> FALSE, value |-> value]
JsArray(items) == [isArray |-> TRUE, items |-> items]

RECURSIVE Join(_, _)
\* items.join(separator)
Join(items, separator) ==
    IF items = << >> THEN ""
    ELSE IF Len(items) = 1 THEN items[1]
    ELSE items[1] \o separator \o Join(Tail(items), separator)

\* Array.isArray(v) ? v.join(', ') : v
Addresses(v) == IF v.isArray THEN Join(v.items, ", ") ELSE v.value

\* v ? (Array.isArray(v) ? v.join(', ') : v) : ''   for an optional argument
OptionalAddresses(args, k) ==
    IF k \notin DOMAIN args THEN ""
    ELSE IF ~args[k].isArray /\ args[k].value = "" THEN ""
    ELSE Addresses(args[k])

\* isHtml: boolean = false
IsHtml(args) == "isHtml" \in DOMAIN args /\ args.isHtml

\* the header lines and the body that follow the To (and From) lines
EmailTail(args) ==
    (IF OptionalAddresses(args, "cc") # "" THEN "Cc: " \o OptionalAddresses(args, "cc") \o "\r\n" ELSE "")
    \o (IF OptionalAddresses(args, "bcc") # "" THEN "Bcc: " \o OptionalAddresses(args, "bcc") \o "\r\n" ELSE "")
    \o "Subject: " \o args.subject \o "\r\n"
    \o "Content-Type: " \o (IF IsHtml(args) THEN "text/html" ELSE "text/plain") \o "; charset=utf-8\r\n\r\n"
    \o args.body

\* emailContent of sendEmail: no line is written for `from`
sendEmailContent(args) ==
    "To: " \o Addresses(args.to) \o "\r\n"
    \o EmailTail(args)

\* emailContent of createDraft
createDraftContent(args) ==
    "To: " \o Addresses(args.to) \o "\r\n"
    \o (IF Truthy(Get(args, "from")) THEN "From: " \o args.from \o "\r\n" ELSE "")
    \o EmailTail(args)

\* Buffer.from(content).toString('base64') made URL-safe and unpadded: an
\* injective encoding, kept as the encoded form of its content
Base64Url(content) == [base64url |-> content]

\* the inverse of Base64Url, applied by the Gmail API to `raw`
Base64UrlDecode(raw) == raw.base64url

DefaultMaxResults == 10

GmailMethods ==
    {"sendEmail", "getEmails", "getEmailDetails", "searchEmails", "markEmailsAsRead",
     "deleteEmails", "createDraft", "getLabels", "getProfile", "addLabelsToEmails",
     "removeLabelsFromEmails"}

\* markAsRead: boolean = true
\* variant: the flag is ignored, the emails are always marked as read
MarkAsReadAlways(args) == TRUE

\* markAsRead: boolean = true
MarkAsRead(args) == "markAsRead" \notin DOMAIN args \/ args.markAsRead

\* the request each method passes to the Gmail client
GmailRequest(op, args) ==
    CASE op = "sendEmail" ->
            [fn |-> "users.messages.send",
             params |-> [userId |-> "me",
                         requestBody |-> [raw |-> Base64Url(sendEmailContent(args))]]]
      [] op = "getEmails" ->
            LET labelIds == IF "labelIds" \in DOMAIN args THEN args.labelIds ELSE <<"INBOX">>
            IN  [fn |-> "users.messages.list",
                 params |->
                     Spread(Spread([userId |-> "me",
                                    maxResults |-> IF "maxResults" \in DOMAIN args
                                                   THEN args.maxResults ELSE DefaultMaxResults],
                                   IF Len(labelIds) > 0 THEN [labelIds |-> labelIds] ELSE << >>),
                            [k \in DOMAIN args \cap {"pageToken", "q"} |-> args[k]])]
      [] op = "getEmailDetails" ->
            [fn |-> "users.messages.get",
             params |-> [userId |-> "me", id |-> args.messageId,
                         format |-> IF "format" \in DOMAIN args THEN args.format ELSE "full"]]
      [] op = "searchEmails" ->
            [fn |-> "users.messages.list",
             params |-> Spread([userId |-> "me",
                                maxResults |-> IF "maxResults" \in DOMAIN args
                                               THEN args.maxResults ELSE DefaultMaxResults,
                                q |-> args.query],
                               [k \in DOMAIN args \cap {"pageToken"} |-> args[k]])]
      [] op = "markEmailsAsRead" ->
            [fn |-> "users.messages.batchModify",
             params |-> [userId |-> "me",
                         requestBody |->
                             Spread([ids |-> args.messageIds],
                                    IF MarkAsRead(args) THEN [removeLabelIds |-> <<"UNREAD">>]
                                    ELSE [addLabelIds |-> <<"UNREAD">>])]]
      [] op = "deleteEmails" ->
            [fn |-> "users.messages.batchDelete",
             params |-> [userId |-> "me", requestBody |-> [ids |-> args.messageIds]]]
      [] op = "createDraft" ->
            [fn |-> "users.drafts.create",
             params |-> [userId |-> "me",
                         requestBody |->
                             [message |-> [raw |-> Base64Url(createDraftContent(args))]]]]
      [] op = "getLabels" -> [fn |-> "users.labels.list", params |-> [userId |-> "me"]]
      [] op = "getProfile" -> [fn |-> "users.getProfile", params |-> [userId |-> "me"]]
      [] op = "addLabelsToEmails" ->
            [fn |-> "users.messages.batchModify",
             params |-> [userId |-> "me",
                         requestBody |-> [ids |-> args.messageIds, addLabelIds |-> args.labelIds]]]
      [] op = "removeLabelsFromEmails" ->
            [fn |-> "users.messages.batchModify",
             params |-> [userId |-> "me",
                         requestBody |-> [ids |-> args.messageIds, removeLabelIds |-> args.labelIds]]]

\* the message of the envelope each method returns
GmailMessage(op, args) ==
    CASE op = "sendEmail" -> "Email sent successfully"
      [] op = "getEmails" -> "Emails retrieved successfully"
      [] op = "getEmailDetails" -> "Email details retrieved successfully"
      [] op = "searchEmails" -> "Email search completed successfully"
      [] op = "markEmailsAsRead" ->
            "Emails marked as " \o (IF MarkAsRead(args) THEN "read" ELSE "unread") \o " successfully"
      [] op = "deleteEmails" -> "Emails deleted successfully"
      [] op = "createDraft" -> "Draft created successfully"
      [] op = "getLabels" -> "Labels retrieved successfully"
      [] op = "getProfile" -> "Profile retrieved successfully"
      [] op = "addLabelsToEmails" -> "Labels added to emails successfully"
      [] op = "removeLabelsFromEmails" -> "Labels removed from emails successfully"

\* getGmailClient: google.gmail({version: 'v1', auth}) with the access token
\* just fetched; the requests of the client carry that token
getGmailClient(accessToken) == [version |-> "v1", auth |-> [access_token |-> accessToken]]

\* a method after getGmailClient resolved or rejected, and after the Gmail
\* request resolved or rejected
gmailContinue(self, slot) ==
    IF Len(slot.issued) = 1
    THEN LET accessToken == getAuthTokenOutcome(slot.settled)
         IN  IF accessToken.kind = "throw" THEN Completed(slot, accessToken)
             ELSE [slot EXCEPT
                      !.issued = Append(@, Spread(GmailRequest(slot.op, slot.config),
                                                  [client |-> getGmailClient(accessToken.value)])),
                      !.settled = Pending]
    ELSE IF slot.settled.kind = "throw" THEN Completed(slot, slot.settled)
    ELSE Completed(slot, Return([success |-> TRUE,
                                 data |-> Get(slot.settled.value, "data"),
                                 message |-> GmailMessage(slot.op, slot.config)]))

(***************************************************************************)
(* The Gmail API behind the client (external) and the mailbox of the       *)
(* authenticated user: the labels of each message it holds.  A message     *)
(* that was permanently deleted is no longer in the mailbox; a message in  *)
(* the trash is in the mailbox with the label TRASH.                       *)
(***************************************************************************)
Range(seq) == {seq[n] : n \in DOMAIN seq}

GmailResponses == {[status |-> "200", data |-> [id |-> "r1"]], [status |-> "204"]}

gmailSettlements(request) ==
    {Return(r) : r \in GmailResponses} \cup {Throw(NewError("Invalid Credentials")), Throw(NetworkError)}

\* users.messages.batchDelete: "immediately and permanently deletes"
batchDelete(body, mb) == [m \in DOMAIN mb \ Range(body.ids) |-> mb[m]]

\* users.messages.batchModify: adds and removes labels on the given messages
batchModify(body, mb) ==
    LET add == IF "addLabelIds" \in DOMAIN body THEN Range(body.addLabelIds) ELSE {}
        remove == IF "removeLabelIds" \in DOMAIN body THEN Range(body.removeLabelIds) ELSE {}
    IN  [m \in DOMAIN mb |-> IF m \in Range(body.ids) THEN (mb[m] \cup add) \ remove ELSE mb[m]]

\* the mailbox after the Gmail API carried out `request`
GmailEffect(request, mb) ==
    CASE request.fn = "users.messages.batchDelete" -> batchDelete(request.params.requestBody, mb)
      [] request.fn = "users.messages.batchModify" -> batchModify(request.params.requestBody, mb)
      [] OTHER -> mb

\* the mailbox the service methods are exercised on
InitialMailbox == [m1 |-> {"INBOX", "UNREAD"}, m2 |-> {"INBOX"}]

\* the arguments the Gmail methods are called with
EmailArgs ==
    LET optional == [from |-> "me@x.com", cc |-> JsArray(<<"c@x.com", "d@x.com">>),
                     bcc |-> JsString("e@x.com"), isHtml |-> TRUE]
        required(to) == [to |-> to, subject |-> "Hi", body |-> "text"]
    IN  { Spread(required(to), [k \in ks |-> optional[k]]) :
            to \in {JsString("a@x.com"), JsArray(<<"a@x.com", "b@x.com">>)},
            ks \in SUBSET {"from", "cc", "isHtml"} }
        \cup {Spread(required(JsString("a@x.com")), optional)}

\* the arguments each Gmail method is called with
GmailArgs(op) ==
    LET ids == {[messageIds |-> m] : m \in {<<"m1">>, <<"m1", "m2">>}}
    IN  CASE op \in {"sendEmail", "createDraft"} -> EmailArgs
          [] op = "getEmails" -> {[q |-> "is:unread"], [labelIds |-> << >>, maxResults |-> 5]}
          [] op = "getEmailDetails" -> {[messageId |-> "m1"]}
          [] op = "searchEmails" -> {[query |-> "from:a@x.com"]}
          [] op = "markEmailsAsRead" -> ids \cup {Spread(a, [markAsRead |-> FALSE]) : a \in ids}
          [] op = "deleteEmails" -> ids
          [] op \in {"getLabels", "getProfile"} -> {NoArgs}
          [] op \in {"addLabelsToEmails", "removeLabelsFromEmails"} ->
                {[messageIds |-> <<"m1">>, labelIds |-> <<"STARRED">>]}

(***************************************************************************)
(* The calls on the Gmail integration.                                     *)
(***************************************************************************)
\* a method up to the await inside getGmailClient (its connection lookup)
gmailCall(c, op, args) ==
    /\ CanCall(c, "gmail")
    /\ calls' = [calls EXCEPT ![c] =
                    Awaiting(op, "gmail", args, getConnCredentialsIssue(instances["gmail"]))]
    /\ UNCHANGED <<env, client, instances, store, mailbox>>

sendEmail(c, args) == gmailCall(c, "sendEmail", args)
getEmails(c, args) == gmailCall(c, "getEmails", args)
getEmailDetails(c, args) == gmailCall(c, "getEmailDetails", args)
searchEmails(c, args) == gmailCall(c, "searchEmails", args)
markEmailsAsRead(c, args) == gmailCall(c, "markEmailsAsRead", args)
deleteEmails(c, args) == gmailCall(c, "deleteEmails", args)
createDraft(c, args) == gmailCall(c, "createDraft", args)
getLabels(c, args) == gmailCall(c, "getLabels", args)
getProfile(c, args) == gmailCall(c, "getProfile", args)
addLabelsToEmails(c, args) == gmailCall(c, "addLabelsToEmails", args)
removeLabelsFromEmails(c, args) == gmailCall(c, "removeLabelsFromEmails", args)

\* the lookup of getGmailClient settles: the method throws, or goes on to
\* its Gmail request
getGmailClientResume(c) ==
    /\ calls[c].pc = "await" /\ calls[c].op \in GmailMethods
    /\ Len(calls[c].issued) = 1
    /\ \E settlement \in getConnectionSettlements(LastIssued(calls[c]), store) :
          calls' = [calls EXCEPT ![c] =
                       gmailContinue(instances[calls[c].inst], [calls[c] EXCEPT !.settled = settlement])]
    /\ UNCHANGED <<env, client, instances, store, mailbox>>

\* the Gmail request settles: the method returns its envelope or throws
gmailResume(c) ==
    /\ calls[c].pc = "await" /\ calls[c].op \in GmailMethods
    /\ Len(calls[c].issued) = 2
    /\ \E settlement \in gmailSettlements(LastIssued(calls[c])) :
          /\ calls' = [calls EXCEPT ![c] =
                          gmailContinue(instances[calls[c].inst], [calls[c] EXCEPT !.settled = settlement])]
          /\ mailbox' = IF settlement.kind = "return" THEN GmailEffect(LastIssued(calls[c]), mailbox)
                        ELSE mailbox
    /\ UNCHANGED <<env, client, instances, store>>

GmailActions(c) ==
    \/ \E args \in GmailArgs("sendEmail") : sendEmail(c, args)
    \/ \E args \in GmailArgs("getEmails") : getEmails(c, args)
    \/ \E args \in GmailArgs("getEmailDetails") : getEmailDetails(c, args)
    \/ \E args \in GmailArgs("searchEmails") : searchEmails(c, args)
    \/ \E args \in GmailArgs("markEmailsAsRead") : markEmailsAsRead(c, args)
    \/ \E args \in GmailArgs("deleteEmails") : deleteEmails(c, args)
    \/ \E args \in GmailArgs("createDraft") : createDraft(c, args)
    \/ \E args \in GmailArgs("getLabels") : getLabels(c, args)
    \/ \E args \in GmailArgs("getProfile") : getProfile(c, args)
    \/ \E args \in GmailArgs("addLabelsToEmails") : addLabelsToEmails(c, args)
    \/ \E args \in GmailArgs("removeLabelsFromEmails") : removeLabelsFromEmails(c, args)
    \/ getGmailClientResume(c)
    \/ gmailResume(c)

(***************************************************************************)
(* GoogleSheetsIntegration (google-sheets.ts): every method is one         *)
(* proxyRequest whose response is wrapped.                                 *)
(***************************************************************************)
\* valueInputOption = 'USER_ENTERED', majorDimension = <the method's default>
ValueInputOption(args) ==
    IF "valueInputOption" \in DOMAIN args THEN args.valueInputOption ELSE "USER_ENTERED"

MajorDimension(args, default) ==
    IF "majorDimension" \in DOMAIN args THEN args.majorDimension ELSE default

SheetsMethods == {"writeRange", "writeSelectively", "batchUpdate", "appendValues", "readRange"}

\* the request spec each method passes to proxyRequest
SheetsConfig(op, args) ==
    LET values == "/v4/spreadsheets/" \o args.spreadsheetId \o "/values/"
        data(default) == [range |-> args.range, majorDimension |-> MajorDimension(args, default),
                          values |-> args.values]
    IN  CASE op = "writeRange" ->
                [baseUrlOverride |-> "https://sheets.googleapis.com/",
                 method |-> "PUT",
                 endpoint |-> values \o args.range \o "?valueInputOption=" \o ValueInputOption(args),
                 data |-> data("ROWS")]
          [] op = "writeSelectively" ->
                [baseUrlOverride |-> "https://sheets.googleapis.com/",
                 method |-> "PUT",
                 endpoint |-> values \o args.range \o "?valueInputOption=" \o ValueInputOption(args),
                 data |-> data("COLUMNS")]
          [] op = "batchUpdate" ->
                [baseUrlOverride |-> "https://sheets.googleapis.com/",
                 method |-> "POST",
                 endpoint |-> "/v4/spreadsheets/" \o args.spreadsheetId \o "/values:batchUpdate",
                 data |-> [valueInputOption |-> ValueInputOption(args), data |-> args.data]]
          [] op = "appendValues" ->
                [baseUrlOverride |-> "https://sheets.googleapis.com/",
                 method |-> "POST",
                 endpoint |-> values \o args.range \o ":append?valueInputOption="
                              \o ValueInputOption(args),
                 data |-> data("ROWS")]
          [] op = "readRange" ->
                [baseUrlOverride |-> "https://sheets.googleapis.com/",
                 method |-> "GET",
                 endpoint |-> values \o args.range \o "?majorDimension="
                              \o MajorDimension(args, "ROWS")]

SheetsMessage(op) ==
    CASE op = "writeRange" -> "Range updated successfully"
      [] op = "writeSelectively" -> "Range updated selectively"
      [] op = "batchUpdate" -> "Batch update completed successfully"
      [] op = "appendValues" -> "Values appended successfully"
      [] op = "readRange" -> "Range read successfully"

\* variant: the method catches a failure of proxyRequest and returns an
\* envelope for it
sheetsContinueCatch(self, slot) ==
    LET response == proxyRequestContinue(self, slot).result
    IN  IF response.kind = "throw"
        THEN Completed(slot, Return([success |-> FALSE, error |-> "Request failed"]))
        ELSE Completed(slot, Return([success |-> TRUE,
                                     data |-> Get(response.value, "data"),
                                     message |-> SheetsMessage(slot.op)]))

\* const response = await this.proxyRequest(...); return { success: true, ... }
sheetsContinue(self, slot) ==
    LET response == proxyRequestContinue(self, slot).result
    IN  IF response.kind = "throw" THEN Completed(slot, response)
        ELSE Completed(slot, Return([success |-> TRUE,
                                     data |-> Get(response.value, "data"),
                                     message |-> SheetsMessage(slot.op)]))

\* the arguments each Sheets method is called with
SheetsArgs(op) ==
    LET range == [spreadsheetId |-> "sheet1", range |-> "A1:B2"]
        values == <<<<"1", "2">>>>
    IN  CASE op = "readRange" -> {range, Spread(range, [majorDimension |-> "COLUMNS"])}
          [] op = "batchUpdate" ->
                {[spreadsheetId |-> "sheet1",
                  data |-> <<[range |-> "A1:B2", majorDimension |-> "ROWS", values |-> values]>>]}
          [] OTHER ->
                {Spread(range, [values |-> values]),
                 Spread(range, [values |-> values, valueInputOption |-> "RAW",
                                majorDimension |-> "COLUMNS"])}

\* a method up to the await of its proxyRequest
sheetsCall(c, op, args) ==
    /\ CanCall(c, "googleSheets")
    /\ calls' = [calls EXCEPT ![c] =
                    Awaiting(op, "googleSheets", args,
                             proxyRequestIssue(instances["googleSheets"], SheetsConfig(op, args)))]
    /\ UNCHANGED <<env, client, instances, store, mailbox>>

writeRange(c, args) == sheetsCall(c, "writeRange", args)
writeSelectively(c, args) == sheetsCall(c, "writeSelectively", args)
batchUpdate(c, args) == sheetsCall(c, "batchUpdate", args)
appendValues(c, args) == sheetsCall(c, "appendValues", args)
readRange(c, args) == sheetsCall(c, "readRange", args)

sheetsResume(c) ==
    /\ calls[c].pc = "await" /\ calls[c].op \in SheetsMethods
    /\ \E settlement \in proxySettlements(LastIssued(calls[c])) :
          calls' = [calls EXCEPT ![c] =
                       sheetsContinue(instances[calls[c].inst], [calls[c] EXCEPT !.settled = settlement])]
    /\ UNCHANGED <<env, client, instances, store, mailbox>>

SheetsActions(c) ==
    \/ \E args \in SheetsArgs("writeRange") : writeRange(c, args)
    \/ \E args \in SheetsArgs("writeSelectively") : writeSelectively(c, args)
    \/ \E args \in SheetsArgs("batchUpdate") : batchUpdate(c, args)
    \/ \E args \in SheetsArgs("appendValues") : appendValues(c, args)
    \/ \E args \in SheetsArgs("readRange") : readRange(c, args)
    \/ sheetsResume(c)

(***************************************************************************)
(* LinkedInIntegration.createTextPost (linkedin.ts): two proxyRequests,    *)
(* the second built from the response to the first.                        *)
(***************************************************************************)
\* JSON.stringify of an object of strings: keys whose value is undefined
\* are left out
JsonFields(o) == [k \in {x \in DOMAIN o : o[x] # Undefined} |-> o[k]]

\* Response.json(body, init): a Response object with the given status
\* (200 when none is given) whose body is the JSON text of `body`
ResponseJson(body, init) ==
    [class |-> "Response",
     status |-> IF "status" \in DOMAIN init THEN init.status ELSE 200,
     body |-> [json |-> body]]

\* response.data?.<k>
DataField(response, k) ==
    IF "data" \in DOMAIN response THEN Get(response.data, k) ELSE Undefined

userInfoConfig ==
    [baseUrlOverride |-> "https://api.linkedin.com/", method |-> "GET", endpoint |-> "/v2/userinfo"]

\* visibility: "PUBLIC" | "PRIVATE" = "PUBLIC"
Visibility(args) == IF "visibility" \in DOMAIN args THEN args.visibility ELSE "PUBLIC"

postPayload(linkedInUserId, args) ==
    [author |-> "urn:li:person:" \o linkedInUserId,
     lifecycleState |-> "PUBLISHED",
     specificContent |->
         "com.linkedin.ugc.ShareContent" :>
             [shareCommentary |-> [text |-> args.text], shareMediaCategory |-> "NONE"],
     visibility |-> "com.linkedin.ugc.MemberNetworkVisibility" :> Visibility(args)]

ugcPostsConfig(linkedInUserId, args) ==
    [method |-> "POST", baseUrlOverride |-> "https://api.linkedin.com/", endpoint |-> "/v2/ugcPosts",
     data |-> postPayload(linkedInUserId, args)]

\* variant: the post is sent without looking at `sub`
createTextPostContinueAlwaysPost(self, slot) ==
    LET response == proxyRequestContinue(self, slot).result
    IN  IF response.kind = "throw" THEN Completed(slot, response)
        ELSE IF Len(slot.issued) = 1
        THEN [slot EXCEPT
                 !.issued = Append(@, proxyRequestIssue(self,
                                ugcPostsConfig(DataField(response.value, "sub"), slot.config))),
                 !.settled = Pending]
        ELSE Completed(slot, Return(ResponseJson(
                 [success |-> TRUE,
                  data |-> JsonFields([postId |-> DataField(response.value, "id"),
                                       postUrl |-> DataField(response.value, "permalink"),
                                       message |-> "Post created successfully"])],
                 << >>)))

\* createTextPost after its first and after its second proxyRequest settled
createTextPostContinue(self, slot) ==
    LET response == proxyRequestContinue(self, slot).result
    IN  IF response.kind = "throw" THEN Completed(slot, response)
        ELSE IF Len(slot.issued) = 1
        THEN IF ~Truthy(DataField(response.value, "sub"))
             THEN Completed(slot, Return(ResponseJson(
                      [success |-> FALSE, error |-> "LinkedIn user ID not found"],
                      [status |-> 400])))
             ELSE [slot EXCEPT
                      !.issued = Append(@, proxyRequestIssue(self,
                                     ugcPostsConfig(response.value.data.sub, slot.config))),
                      !.settled = Pending]
        ELSE Completed(slot, Return(ResponseJson(
                 [success |-> TRUE,
                  data |-> JsonFields([postId |-> DataField(response.value, "id"),
                                       postUrl |-> DataField(response.value, "permalink"),
                                       message |-> "Post created successfully"])],
                 << >>)))

\* the LinkedIn API behind the proxy (external)
UserInfoResponses ==
    { [status |-> "200", data |-> [sub |-> "user1", name |-> "n"]],
      [status |-> "200", data |-> [name |-> "n"]],
      [status |-> "200", data |-> [sub |-> "", name |-> "n"]],
      [status |-> "204"] }

UgcPostsResponses ==
    { [status |-> "201", data |-> [id |-> "urn:li:share:1", permalink |-> "https://linkedin.com/p/1"]],
      [status |-> "201"] }

linkedInSettlements(request) ==
    {Return(r) : r \in IF request.config.endpoint = "/v2/userinfo" THEN UserInfoResponses
                       ELSE UgcPostsResponses}
    \cup {Throw(UpstreamError), Throw(NetworkError)}

PostArgs == {[text |-> "Hello"], [text |-> "Hello", visibility |-> "PRIVATE"]}

\* createTextPost up to the await of its first proxyRequest
createTextPost(c, args) ==
    /\ CanCall(c, "linkedin")
    /\ calls' = [calls EXCEPT ![c] =
                    Awaiting("createTextPost", "linkedin", args,
                             proxyRequestIssue(instances["linkedin"], userInfoConfig))]
    /\ UNCHANGED <<env, client, instances, store, mailbox>>

createTextPostResume(c) ==
    /\ Resumable(c, "createTextPost")
    /\ \E settlement \in linkedInSettlements(LastIssued(calls[c])) :
          calls' = [calls EXCEPT ![c] =
                       createTextPostContinue(instances[calls[c].inst], [calls[c] EXCEPT !.settled = settlement])]
    /\ UNCHANGED <<env, client, instances, store, mailbox>>

LinkedInActions(c) ==
    \/ \E args \in PostArgs : createTextPost(c, args)
    \/ createTextPostResume(c)

(***************************************************************************)
(* OpenAIIntegration.createChatCompletion (openai.ts).                     *)
(***************************************************************************)
\* this.client.chat.completions.create({ model, messages, ...options })
createChatCompletionIssue(self, args) ==
    [fn |-> "chat.completions.create",
     apiKey |-> self.client.apiKey,
     params |-> Spread([model |-> IF "model" \in DOMAIN args THEN args.model ELSE "gpt-4",
                        messages |-> args.messages],
                       IF "options" \in DOMAIN args THEN args.options ELSE << >>)]

\* variant: no try/catch, a failure of the completion call is rethrown
createChatCompletionOutcomeRethrow(settled) ==
    IF settled.kind = "throw" THEN settled
    ELSE Return([success |-> TRUE, data |-> settled.value,
                 message |-> "Chat completion created successfully"])

\* try { ... return { success: true, ... } } catch (error) { return { success: false, ... } }
createChatCompletionOutcome(settled) ==
    IF settled.kind = "throw"
    THEN Return([success |-> FALSE,
                 error |-> IF settled.thrown.instanceofError THEN settled.thrown.message
                           ELSE "Unknown error",
                 message |-> "Failed to create chat completion"])
    ELSE Return([success |-> TRUE, data |-> settled.value,
                 message |-> "Chat completion created successfully"])

createChatCompletionContinue(self, slot) ==
    Completed(slot, createChatCompletionOutcome(slot.settled))

\* the OpenAI API behind the client (external)
ChatCompletions ==
    { [id |-> "cmpl1", choices |-> <<[message |-> [role |-> "assistant", content |-> "hello"]]>>],
      [id |-> "cmpl2", choices |-> << >>],
      [id |-> "cmpl3", choices |-> <<[message |-> [role |-> "assistant", content |-> ""]]>>],
      [id |-> "cmpl4"] }

openAISettlements(request) ==
    {Return(r) : r \in ChatCompletions}
    \cup {Throw(NewError("429 Rate limit exceeded")), Throw(NewError("")), Throw(NonErrorRejection)}

ChatArgs ==
    { [messages |-> <<[role |-> "user", content |-> "hi"]>>],
      [messages |-> <<[role |-> "system", content |-> "be brief"], [role |-> "user", content |-> "hi"]>>,
       model |-> "gpt-4o", options |-> [temperature |-> "0.2"]] }

createChatCompletion(c, args) ==
    /\ calls[c].pc = "idle" /\ "openai" \in DOMAIN instances
    /\ calls' = [calls EXCEPT ![c] =
                    Awaiting("createChatCompletion", "openai", args,
                             createChatCompletionIssue(instances["openai"], args))]
    /\ UNCHANGED <<env, client, instances, store, mailbox>>

createChatCompletionResume(c) ==
    /\ Resumable(c, "createChatCompletion")
    /\ \E settlement \in openAISettlements(LastIssued(calls[c])) :
          calls' = [calls EXCEPT ![c] =
                       createChatCompletionContinue(instances[calls[c].inst], [calls[c] EXCEPT !.settled = settlement])]
    /\ UNCHANGED <<env, client, instances, store, mailbox>>

(***************************************************************************)
(* OpenAIIntegration.complete: one createChatCompletion call, whose result *)
(* is unwrapped.                                                           *)
(***************************************************************************)
\* options?.<k>
Option(args, k) == IF "options" \in DOMAIN args THEN Get(args.options, k) ELSE Undefined

\* the messages array: the system message if options.system is given, then
\* the user message
completeMessages(args) ==
    (IF Truthy(Option(args, "system"))
     THEN <<[role |-> "system", content |-> args.options.system]>> ELSE << >>)
    \o <<[role |-> "user", content |-> args.input]>>

\* this.createChatCompletion(messages, model, { temperature, max_tokens })
completeIssue(self, args) ==
    createChatCompletionIssue(self,
        [messages |-> completeMessages(args),
         model |-> IF "model" \in DOMAIN args THEN args.model ELSE "gpt-4",
         options |-> [temperature |-> Option(args, "temperature"),
                      max_tokens |-> Option(args, "max_tokens")]])

\* response.data.choices[0]?.message?.content
FirstContent(data) ==
    IF "choices" \notin DOMAIN data THEN Undefined
    ELSE IF Len(data.choices) = 0 THEN Undefined
    ELSE IF "message" \notin DOMAIN data.choices[1] THEN Undefined
    ELSE Get(data.choices[1].message, "content")

\* variant: a failed completion is reported as an invalid response
completeOutcomeOneMessage(response) ==
    IF ~response.success \/ ~Truthy(FirstContent(response.data))
    THEN Throw(NewError("Invalid response format from OpenAI"))
    ELSE Return(FirstContent(response.data))

\* the two checks of the response and the return
completeOutcome(response) ==
    IF ~response.success
    THEN Throw(NewError(OrElse(response.error, "Failed to create completion")))
    ELSE IF ~Truthy(FirstContent(response.data))
    THEN Throw(NewError("Invalid response format from OpenAI"))
    ELSE Return(FirstContent(response.data))

completeContinue(self, slot) ==
    Completed(slot, completeOutcome(createChatCompletionOutcome(slot.settled).value))

CompleteArgs ==
    { [input |-> "hi"],
      [input |-> "hi", model |-> "gpt-4o", options |-> [system |-> "be brief", temperature |-> "0.2"]],
      [input |-> "hi", options |-> [system |-> ""]] }

complete(c, args) ==
    /\ calls[c].pc = "idle" /\ "openai" \in DOMAIN instances
    /\ calls' = [calls EXCEPT ![c] =
                    Awaiting("complete", "openai", args, completeIssue(instances["openai"], args))]
    /\ UNCHANGED <<env, client, instances, store, mailbox>>

completeResume(c) ==
    /\ Resumable(c, "complete")
    /\ \E settlement \in openAISettlements(LastIssued(calls[c])) :
          calls' = [calls EXCEPT ![c] =
                       completeContinue(instances[calls[c].inst], [calls[c] EXCEPT !.settled = settlement])]
    /\ UNCHANGED <<env, client, instances, store, mailbox>>

OpenAIActions(c) ==
    \/ \E args \in ChatArgs : createChatCompletion(c, args)
    \/ createChatCompletionResume(c)
    \/ \E args \in CompleteArgs : complete(c, args)
    \/ completeResume(c)

(***************************************************************************)
(* SpecServices: the service methods of the client of the scenarios, one   *)
(* call at a time, next to the credential methods, while a second caller   *)
(* asks the Gmail integration for its token and OAuth2 records come and go *)
(* in the client's Gmail connection.                                       *)
(***************************************************************************)
ServiceRecords ==
    { [type |-> "OAUTH2", access_token |-> "tok123"],
      [type |-> "OAUTH2", access_token |-> "tok456", refresh_token |-> "ref1", expires_at |-> "past"] }

GmailKey == <<SubclassProviderConfigKey["gmail"], ScenarioConfig.connectionId>>

InitServices ==
    /\ Constructed(ScenarioConfig)
    /\ store = << >>
    /\ mailbox = InitialMailbox

NextServices ==
    \/ GmailActions("callerA")
    \/ SheetsActions("callerA")
    \/ LinkedInActions("callerA")
    \/ OpenAIActions("callerA")
    \/ LookupActions("callerA")
    \/ ProxyActions("callerA")
    \/ TakeResult("callerA")
    \/ getAuthToken("callerB", "gmail")
    \/ getAuthTokenResume("callerB")
    \/ TakeResult("callerB")
    \/ \E record \in ServiceRecords : StoreWrite(GmailKey, record)
    \/ StoreRemove(GmailKey)

SpecServices == InitServices /\ [][NextServices]_vars

(***************************************************************************)
(* Properties.                                                             *)
(***************************************************************************)
\* whether string s contains the string sub
Contains(s, sub) ==
    \E i \in 1..(Len(s) + 1 - Len(sub)) : SubSeq(s, i, i + Len(sub) - 1) = sub

\* caller c's call of `op` has completed
Done(c, op) == calls[c].pc = "done" /\ calls[c].op = op

\* caller c's call of `op` has completed and its lookup returned a record
DoneWithRecord(c, op) == Done(c, op) /\ calls[c].settled.kind = "return"

\* the credential record the lookup of caller c's call returned
RecordOf(c) == calls[c].settled.value.credentials

\* field k of record r is present and not the empty string
NonEmptyField(r, k) == k \in DOMAIN r /\ r[k] # ""

\* the fields a tag requires are all present and non-empty
RequiredFieldsPresent(r) ==
    CASE r.type = "OAUTH2" -> NonEmptyField(r, "access_token")
      [] r.type = "OAUTH1" -> NonEmptyField(r, "oauth_token")
      [] r.type = "BASIC" -> NonEmptyField(r, "username") /\ NonEmptyField(r, "password")
      [] r.type = "API_KEY" -> NonEmptyField(r, "apiKey")

HasKnownTag(r) == "type" \in DOMAIN r /\ r.type \in {"OAUTH2", "OAUTH1", "BASIC", "API_KEY"}

\* C1: for a record with one of the four known tags, getAuthToken returns
\* the record's access_token (OAUTH2), its oauth_token and not its
\* oauth_token_secret (OAUTH1), the pair of its username and password
\* (BASIC), its apiKey (API_KEY); {type:'OAUTH2', access_token:'tok123'}
\* yields 'tok123'.
C1_AuthTokenPerTag ==
    \A c \in Callers :
        (DoneWithRecord(c, "getAuthToken") /\ HasKnownTag(RecordOf(c))) =>
            LET r == RecordOf(c)
                out == calls[c].result
            IN  /\ out.kind = "return"
                /\ r.type = "OAUTH2" => out.value = Get(r, "access_token")
                /\ r.type = "OAUTH1" =>
                      /\ out.value = Get(r, "oauth_token")
                      /\ out.value # r.oauth_token_secret
                /\ r.type = "BASIC" =>
                      /\ DOMAIN out.value = {"username", "password"}
                      /\ out.value.username = Get(r, "username")
                      /\ out.value.password = Get(r, "password")
                /\ r.type = "API_KEY" => out.value = Get(r, "apiKey")
                /\ r = [type |-> "OAUTH2", access_token |-> "tok123"] => out.value = "tok123"

C1_Witness ==
    \E c \in Callers :
        /\ DoneWithRecord(c, "getAuthToken")
        /\ RecordOf(c) = [type |-> "OAUTH1", oauth_token |-> "otok", oauth_token_secret |-> "osecret"]
        /\ calls[c].result = Return("otok")

\* C2: for a record whose tag is none of the four, getAuthToken throws an
\* Error whose message names the tag; it never returns a value.
C2_UnknownTagThrows ==
    \A c \in Callers :
        (DoneWithRecord(c, "getAuthToken") /\ ~HasKnownTag(RecordOf(c))) =>
            /\ calls[c].result.kind = "throw"
            /\ calls[c].result.thrown.instanceofError
            /\ Contains(calls[c].result.thrown.message,
                        IF "type" \in DOMAIN RecordOf(c) THEN RecordOf(c).type ELSE "undefined")

C2_Witness ==
    \E c \in Callers :
        /\ DoneWithRecord(c, "getAuthToken")
        /\ RecordOf(c) = [type |-> "UNKNOWN_TAG"]
        /\ calls[c].result.kind = "throw"
        /\ Contains(calls[c].result.thrown.message, "UNKNOWN_TAG")

\* C3: validateConnection never throws: whatever the credential fetch gave
\* (any record, or a failure) the call completes with a result value; when
\* the fetch failed the result is {isValid:false, error} and error is the
\* message of the Error the fetch threw.
C3_ValidateNeverThrows ==
    \A c \in Callers :
        Done(c, "validateConnection") =>
            /\ calls[c].result.kind = "return"
            /\ "isValid" \in DOMAIN calls[c].result.value
            /\ calls[c].settled.kind = "throw" =>
                  /\ DOMAIN calls[c].result.value = {"isValid", "error"}
                  /\ calls[c].result.value.isValid = FALSE
                  /\ calls[c].settled.thrown.instanceofError =>
                        calls[c].result.value.error = calls[c].settled.thrown.message

C3_Witness ==
    \E c \in Callers :
        /\ Done(c, "validateConnection")
        /\ calls[c].settled = Throw(NewError("Request failed with status code 404"))
        /\ calls[c].result =
              Return([isValid |-> FALSE, error |-> "Request failed with status code 404"])

\* C4: for a record with a known tag, validateConnection returns
\* isValid:true exactly when the fields the tag requires are all present
\* and non-empty, and the {isValid:true} result has no error field.
C4_ValidIffRequiredFields ==
    \A c \in Callers :
        (DoneWithRecord(c, "validateConnection") /\ HasKnownTag(RecordOf(c))) =>
            /\ calls[c].result.kind = "return"
            /\ calls[c].result.value.isValid = RequiredFieldsPresent(RecordOf(c))
            /\ calls[c].result.value.isValid => DOMAIN calls[c].result.value = {"isValid"}

C4_Witness ==
    \E c \in Callers :
        /\ DoneWithRecord(c, "validateConnection")
        /\ RecordOf(c) = [type |-> "BASIC", username |-> "u", password |-> "p"]
        /\ calls[c].result = Return([isValid |-> TRUE])

\* the reason validateConnection gives for a tag's missing field
MissingReason ==
    [OAUTH2 |-> "Missing access token", OAUTH1 |-> "Missing OAuth token",
     BASIC |-> "Missing username or password", API_KEY |-> "Missing API key"]

\* C5: when a required field is empty validateConnection returns exactly
\* {isValid:false, error: <the reason of the tag>}; the BASIC record
\* {username:'u', password:''} yields 'Missing username or password'.
C5_MissingFieldReason ==
    \A c \in Callers :
        (/\ DoneWithRecord(c, "validateConnection")
         /\ HasKnownTag(RecordOf(c))
         /\ ~RequiredFieldsPresent(RecordOf(c))) =>
            /\ calls[c].result = Return([isValid |-> FALSE, error |-> MissingReason[RecordOf(c).type]])
            /\ RecordOf(c) = [type |-> "BASIC", username |-> "u", password |-> ""] =>
                  calls[c].result =
                      Return([isValid |-> FALSE, error |-> "Missing username or password"])

C5_Witness ==
    \E c \in Callers :
        /\ DoneWithRecord(c, "validateConnection")
        /\ RecordOf(c) = [type |-> "BASIC", username |-> "u", password |-> ""]
        /\ calls[c].result = Return([isValid |-> FALSE, error |-> "Missing username or password"])

\* caller c has a proxyRequest call in flight or completed
IsProxyCall(c) == calls[c].pc # "idle" /\ calls[c].op = "proxyRequest"

\* C6: the request proxyRequest forwards to the proxy client carries the
\* integration's own providerConfigKey and the connectionId the client was
\* constructed with, also when the caller's request spec carries values for
\* these two fields.
C6_ForwardsOwnKeys ==
    \A c \in Callers :
        IsProxyCall(c) =>
            \A n \in 1..Len(calls[c].issued) :
                /\ calls[c].issued[n].config.providerConfigKey
                      = SubclassProviderConfigKey[calls[c].inst]
                /\ calls[c].issued[n].config.connectionId = client.config.connectionId

C6_Witness ==
    \E c \in Callers :
        /\ IsProxyCall(c)
        /\ calls[c].inst = "gmail"
        /\ Get(calls[c].config, "providerConfigKey") = "other-provider"
        /\ Get(calls[c].config, "connectionId") = "other-conn"
        /\ calls[c].issued[1].config.providerConfigKey = "google-mail"
        /\ calls[c].issued[1].config.connectionId = "c1"

\* C7: the forwarded request has every other field of the caller's request
\* spec unchanged and no field besides these and the two keys, and the call
\* returns the proxy client's response unchanged.
C7_ForwardsRestUnchanged ==
    \A c \in Callers :
        IsProxyCall(c) =>
            LET sent == calls[c].issued[1].config
                given == calls[c].config
            IN  /\ DOMAIN sent = DOMAIN given \cup {"providerConfigKey", "connectionId"}
                /\ \A k \in DOMAIN given \ {"providerConfigKey", "connectionId"} :
                      sent[k] = given[k]
                /\ (calls[c].pc = "done" /\ calls[c].settled.kind = "return") =>
                      calls[c].result = Return(calls[c].settled.value)

C7_Witness ==
    \E c \in Callers :
        /\ Done(c, "proxyRequest")
        /\ calls[c].config =
              [method |-> "POST", endpoint |-> "/v2/ugcPosts", data |-> "payload", headers |-> "hdrs"]
        /\ calls[c].issued[1].config.headers = "hdrs"
        /\ calls[c].result = Return([status |-> "200", data |-> "body1"])

\* C8: a proxyRequest call invokes the proxy client exactly once, whether the
\* invocation succeeds or fails; a failed invocation is not issued again.
C8_ProxyOnce ==
    \A c \in Callers :
        IsProxyCall(c) =>
            /\ Len(calls[c].issued) = 1
            /\ calls[c].issued[1].fn = "proxy"
            /\ calls[c].settled.kind = "throw" =>
                  (calls[c].pc = "done" /\ calls[c].result = calls[c].settled)

C8_Witness ==
    \E c \in Callers :
        /\ Done(c, "proxyRequest")
        /\ calls[c].result = Throw(NewError("Request failed with status code 500"))
        /\ Len(calls[c].issued) = 1

\* a construction was attempted
Attempted == client # NotConstructed

\* the value an input of the constructor resolves to: the config's when that
\* is given and non-empty, else the environment variable's
Resolved(option, variable) ==
    IF option \in DOMAIN client.config /\ client.config[option] # ""
    THEN client.config[option]
    ELSE IF variable \in DOMAIN env THEN env[variable] ELSE ""

\* C9: constructing a client whose resolved connection id or resolved secret
\* key is absent or empty throws, with no integration created and no request
\* issued before the throw, one Error whose message mentions both the
\* connection id and the secret key.
C9_MissingInputFails ==
    (/\ Attempted
     /\ \/ Resolved("connectionId", "NANGO_CONNECTION_ID") = ""
        \/ Resolved("secretKey", "NANGO_SECRET_KEY") = "") =>
        /\ client.outcome.kind = "throw"
        /\ client.outcome.thrown.instanceofError
        /\ Contains(client.outcome.thrown.message, "connection ID")
        /\ Contains(client.outcome.thrown.message, "secret key")
        /\ client.created = << >>
        /\ client.requests = << >>
        /\ instances = << >>
        /\ \A c \in Callers : calls[c] = Idle

C9_Witness ==
    /\ Attempted
    /\ client.class = "KuweAI"
    /\ client.config = [secretKey |-> "s1"]
    /\ "NANGO_CONNECTION_ID" \notin DOMAIN env
    /\ "OPENAI_API_KEY" \in DOMAIN env
    /\ client.outcome.kind = "throw"

\* C10: whenever the connection id and the secret key both resolve to
\* non-empty values, constructing the top-level client succeeds, whatever
\* the rest of the environment (OPENAI_API_KEY unset included).
C10_OnlyValidation ==
    (/\ Attempted
     /\ client.class = "KuweAI"
     /\ Resolved("connectionId", "NANGO_CONNECTION_ID") # ""
     /\ Resolved("secretKey", "NANGO_SECRET_KEY") # "") =>
        client.outcome.kind = "return"

\* the value an input resolves to when every supplied option, the empty
\* string included, takes precedence over the environment variable
Supplied(option, variable) ==
    IF option \in DOMAIN client.config THEN client.config[option]
    ELSE IF variable \in DOMAIN env THEN env[variable] ELSE ""

\* a client was constructed
Succeeded == Attempted /\ client.outcome.kind = "return"

\* C11 as stated: the connection id and the secret key of a constructed
\* client are the config's options whenever they are supplied, else the
\* environment variables', field by field.
C11_SuppliedConfigWins ==
    Succeeded =>
        /\ client.outcome.value.connectionId = Supplied("connectionId", "NANGO_CONNECTION_ID")
        /\ client.outcome.value.nango.secretKey = Supplied("secretKey", "NANGO_SECRET_KEY")

\* C11, amended: the connection id and the secret key of a constructed
\* client are the config's options whenever they are supplied and non-empty,
\* else the environment variables', field by field; every integration of the
\* client is bound to that connection id.
C11_NonEmptyConfigWins ==
    Succeeded =>
        /\ client.outcome.value.connectionId = Resolved("connectionId", "NANGO_CONNECTION_ID")
        /\ client.outcome.value.nango.secretKey = Resolved("secretKey", "NANGO_SECRET_KEY")
        /\ \A i \in DOMAIN instances \ {"openai"} :
               instances[i].connectionId = Resolved("connectionId", "NANGO_CONNECTION_ID")

\* one field from the config, the other from the environment, the
\* environment's connection id overridden
C11_Witness ==
    /\ Succeeded
    /\ client.config = [connectionId |-> "c1"]
    /\ Get(env, "NANGO_CONNECTION_ID") = "c2"
    /\ client.outcome.value.connectionId = "c1"
    /\ client.outcome.value.nango.secretKey = "s2"

\* the fields an Integration instance has after construction
ConstructionFields == {"name", "providerConfigKey", "connectionId"}

\* the methods that need the credential of the connection
CredentialMethods == {"getConnCredentials", "getAuthToken", "validateConnection"} \cup GmailMethods

\* the store key of the connection of the instance a call is made on
OwnKey(slot) == <<instances[slot.inst].providerConfigKey, instances[slot.inst].connectionId>>

\* C12: an Integration never holds a token across calls.  After every step
\* the instances have their three construction fields only; every call of a
\* credential method begins with a connection lookup of its own; and the
\* token a getAuthToken call returns, the validity a validateConnection call
\* reports and the token a Gmail method builds its client from are those of
\* the record the store holds when the lookup is answered, whatever the
\* store held during earlier calls.
C12_NoTokenHeld ==
    [][/\ \A i \in DOMAIN instances' \cap IntegrationFields :
              DOMAIN instances'[i] = ConstructionFields
       /\ \A c \in Callers :
              (calls'[c].pc # "idle" /\ calls'[c].op \in CredentialMethods) =>
                  calls'[c].issued[1] = getConnCredentialsIssue(instances'[calls'[c].inst])
       /\ \A c \in Callers :
              (calls[c].pc = "await" /\ calls'[c].pc = "done" /\ calls[c].op = "getAuthToken"
                  /\ calls'[c].result.kind = "return") =>
                  /\ OwnKey(calls[c]) \in DOMAIN store
                  /\ calls'[c].result.value = store[OwnKey(calls[c])].access_token
       /\ \A c \in Callers :
              (calls[c].pc = "await" /\ calls'[c].pc = "done" /\ calls[c].op = "validateConnection") =>
                  (calls'[c].result.value.isValid <=> OwnKey(calls[c]) \in DOMAIN store
                                                      /\ calls'[c].settled.kind = "return")
       /\ \A c \in Callers :
              (calls[c].pc = "await" /\ calls[c].op \in GmailMethods
                  /\ Len(calls[c].issued) = 1 /\ calls'[c].pc = "await"
                  /\ Len(calls'[c].issued) = 2) =>
                  /\ OwnKey(calls[c]) \in DOMAIN store
                  /\ calls'[c].issued[2].client.auth.access_token = store[OwnKey(calls[c])].access_token
      ]_vars

\* two calls on the Gmail integration, the record of its connection
\* replaced in between: one fetched tok123, the other sent an email with
\* tok456, and the instance holds neither
C12_Witness ==
    /\ Done("callerB", "getAuthToken")
    /\ calls["callerB"].result = Return("tok123")
    /\ Done("callerA", "sendEmail")
    /\ calls["callerA"].result.kind = "return"
    /\ calls["callerA"].issued[2].client.auth.access_token = "tok456"
    /\ DOMAIN instances["gmail"] = ConstructionFields

\* C13: the name, providerConfigKey and connectionId of an Integration
\* instance are fixed at construction.  No step of a proxyRequest,
\* getConnCredentials, getAuthToken, validateConnection or service-method
\* call, returning or throwing, changes an instance, and every instance is
\* what its constructor made of the client's connection id.
C13_InstanceFixed ==
    [][/\ instances' = instances
       /\ \A i \in DOMAIN instances' \cap IntegrationFields :
              instances'[i] = NewIntegration(i, client.outcome.value.connectionId)
      ]_vars

\* a proxyRequest whose config named another provider and connection has
\* failed, and the instance is as constructed
C13_Witness ==
    /\ Done("callerA", "proxyRequest")
    /\ Get(calls["callerA"].config, "connectionId") = "other-conn"
    /\ calls["callerA"].result.kind = "throw"
    /\ instances[calls["callerA"].inst] = NewIntegration(calls["callerA"].inst, "c1")

\* C14: getConnCredentials and getAuthToken issue exactly one lookup, with
\* the providerConfigKey of the integration's class and the connection id
\* the instance was constructed with, and do not catch its failure: when
\* the lookup fails the call has failed with the very error of the lookup
\* and has returned no value.
C14_LookupFailurePropagates ==
    \A c \in Callers :
        (calls[c].pc # "idle" /\ calls[c].op \in {"getConnCredentials", "getAuthToken"}) =>
            /\ calls[c].issued =
                   <<[fn |-> "getConnection",
                      providerConfigKey |-> SubclassProviderConfigKey[calls[c].inst],
                      connectionId |-> client.config.connectionId]>>
            /\ calls[c].settled.kind = "throw" =>
                   /\ calls[c].pc = "done"
                   /\ calls[c].result.kind = "throw"
                   /\ calls[c].result.thrown = calls[c].settled.thrown

\* getAuthToken on an integration whose connection the store does not hold
C14_Witness ==
    /\ Done("callerA", "getAuthToken")
    /\ OwnKey(calls["callerA"]) \notin DOMAIN store
    /\ calls["callerA"].settled = Throw(NotFoundError)
    /\ calls["callerA"].result = Throw(NotFoundError)

\* the methods that go through the proxy
ProxyMethods == {"proxyRequest", "createTextPost"} \cup SheetsMethods

\* C15: an upstream failure of the proxy call is caught neither by
\* proxyRequest nor by the Sheets methods nor by createTextPost: when a
\* proxy call of the method fails, the method has failed with the same
\* error, and no {success: ...} object was returned.
C15_ProxyFailurePropagates ==
    \A c \in Callers :
        (calls[c].pc # "idle" /\ calls[c].op \in ProxyMethods /\ calls[c].settled.kind = "throw") =>
            /\ calls[c].pc = "done"
            /\ calls[c].result.kind = "throw"
            /\ calls[c].result.thrown = calls[c].settled.thrown

\* writeRange whose PUT was answered with a 500 by the upstream
C15_Witness ==
    /\ Done("callerA", "writeRange")
    /\ LastIssued(calls["callerA"]).config.method = "PUT"
    /\ calls["callerA"].settled = Throw(UpstreamError)
    /\ calls["callerA"].result = Throw(UpstreamError)

\* the public methods of the service integrations
ServiceMethods == GmailMethods \cup SheetsMethods \cup {"createTextPost", "createChatCompletion"}

\* C16: what a public integration method returns is, on the happy path, an
\* object with exactly the members success (true), data and message, and
\* on a caught failure an object with success false and an error.
C16_ResponseShape ==
    \A c \in Callers :
        (calls[c].pc = "done" /\ calls[c].op \in ServiceMethods /\ calls[c].result.kind = "return") =>
            /\ "success" \in DOMAIN calls[c].result.value
            /\ IF calls[c].result.value.success
               THEN DOMAIN calls[c].result.value = {"success", "data", "message"}
               ELSE "error" \in DOMAIN calls[c].result.value

\* the request a call of a base method issues, from its own instance and
\* its own argument only
OwnRequest(op, self, config) ==
    IF op = "proxyRequest" THEN proxyRequestIssue(self, config) ELSE getConnCredentialsIssue(self)

\* the answers the Nango client can give to the request of a call
OwnSettlements(slot) ==
    IF slot.op = "proxyRequest" THEN proxySettlements(LastIssued(slot))
    ELSE getConnectionSettlements(LastIssued(slot), store)

\* what a base method makes of the answer to its request when it runs alone
Alone(op, settled) ==
    CASE op = "proxyRequest" -> settled
      [] op = "getConnCredentials" -> getConnCredentialsOutcome(settled)
      [] op = "getAuthToken" -> getAuthTokenOutcome(settled)
      [] op = "validateConnection" -> validateConnectionOutcome(settled)

\* C17: calls in flight on the same instances are independent.  A step of
\* one call leaves every other call as it was; the request a call issues is
\* built from its own instance and argument; the answer a call completes on
\* is an answer to its own request (for a lookup: the record of its own
\* connection); and its result is what the method makes of that answer alone.
C17_CallsIndependent ==
    [][\A c \in Callers :
          calls'[c] # calls[c] =>
              /\ \A d \in Callers \ {c} : calls'[d] = calls[d]
              /\ (calls[c].pc = "idle" /\ calls'[c].pc = "await") =>
                     calls'[c].issued =
                         <<OwnRequest(calls'[c].op, instances[calls'[c].inst], calls'[c].config)>>
              /\ (calls[c].pc = "await" /\ calls'[c].pc = "done") =>
                     /\ calls'[c].issued = calls[c].issued
                     /\ calls'[c].settled \in OwnSettlements(calls[c])
                     /\ calls'[c].result = Alone(calls[c].op, calls'[c].settled)
      ]_vars

\* a token fetch and a proxied request in flight together on the Gmail
\* integration: the one has returned the token of Gmail's connection, the
\* other the upstream's response to its POST
C17_Witness ==
    /\ Done("callerA", "getAuthToken") /\ calls["callerA"].inst = "gmail"
    /\ Done("callerB", "proxyRequest") /\ calls["callerB"].inst = "gmail"
    /\ DoneWithRecord("callerA", "getAuthToken") /\ RecordOf("callerA").type = "OAUTH2"
    /\ calls["callerA"].result = Return("tok123")
    /\ calls["callerB"].config.method = "POST"
    /\ calls["callerB"].result = Return([status |-> "200", data |-> "body1"])

\* the calls on OAUTH2 records behave as if the record had neither
\* expires_at nor refresh_token
IgnoresExpiry ==
    \A c \in Callers :
        /\ (DoneWithRecord(c, "getAuthToken") /\ Get(RecordOf(c), "type") = "OAUTH2") =>
               calls[c].result = Return(Get(RecordOf(c), "access_token"))
        /\ (DoneWithRecord(c, "validateConnection") /\ Get(RecordOf(c), "type") = "OAUTH2") =>
               /\ calls[c].result.kind = "return"
               /\ calls[c].result.value.isValid <=> NonEmptyField(RecordOf(c), "access_token")

RawMessage(c) == Base64UrlDecode(calls[c].issued[2].params.requestBody.raw)

\* C19: sendEmail honours its optional sender: the message it hands to the
\* Gmail API carries a From header with the `from` argument when that is
\* supplied, and no From header when it is omitted.
C19_SendEmailHonoursFrom ==
    \A c \in Callers :
        (calls[c].pc # "idle" /\ calls[c].op = "sendEmail" /\ Len(calls[c].issued) = 2) =>
            IF Truthy(Get(calls[c].config, "from"))
            THEN Contains(RawMessage(c), "From: " \o calls[c].config.from \o "\r\n")
            ELSE ~Contains(RawMessage(c), "From: ")

\* a request that moves messages to the trash: users.messages.trash, or a
\* batchModify that adds the label TRASH
IsTrashRequest(request) ==
    \/ request.fn = "users.messages.trash"
    \/ /\ request.fn = "users.messages.batchModify"
       /\ "addLabelIds" \in DOMAIN request.params.requestBody
       /\ "TRASH" \in Range(request.params.requestBody.addLabelIds)

\* C20: deleteEmails moves the given messages to the trash.  The one Gmail
\* request it issues is a trash request on exactly the given ids, and when
\* it has returned, every given message is still in the mailbox, in the
\* trash.
C20_DeleteMovesToTrash ==
    \A c \in Callers :
        (calls[c].pc # "idle" /\ calls[c].op = "deleteEmails" /\ Len(calls[c].issued) = 2) =>
            /\ IsTrashRequest(calls[c].issued[2])
            /\ calls[c].issued[2].params.requestBody.ids = calls[c].config.messageIds
            /\ (calls[c].pc = "done" /\ calls[c].result.kind = "return") =>
                   \A m \in Range(calls[c].config.messageIds) \cap DOMAIN InitialMailbox :
                       m \in DOMAIN mailbox /\ "TRASH" \in mailbox[m]

\* C21: createChatCompletion never throws.  Once the completion call has
\* settled the method has returned: {success: true, data: <the response>,
\* message} when the call succeeded, and when it failed an object of
\* exactly success (false), error and message ('Failed to create chat
\* completion'), without data, whose error is the message of the error.
C21_ChatCompletionNeverThrows ==
    \A c \in Callers :
        (calls[c].pc # "idle" /\ calls[c].op = "createChatCompletion"
            /\ calls[c].settled.kind # "pending") =>
            /\ calls[c].pc = "done"
            /\ calls[c].result.kind = "return"
            /\ IF calls[c].settled.kind = "return"
               THEN calls[c].result.value =
                        [success |-> TRUE, data |-> calls[c].settled.value,
                         message |-> "Chat completion created successfully"]
               ELSE /\ DOMAIN calls[c].result.value = {"success", "error", "message"}
                    /\ ~calls[c].result.value.success
                    /\ calls[c].result.value.message = "Failed to create chat completion"
                    /\ calls[c].settled.thrown.instanceofError =>
                           calls[c].result.value.error = calls[c].settled.thrown.message

\* the OpenAI API answered 429 and the method returned the failure object
C21_Witness ==
    /\ Done("callerA", "createChatCompletion")
    /\ calls["callerA"].settled = Throw(NewError("429 Rate limit exceeded"))
    /\ calls["callerA"].result =
           Return([success |-> FALSE, error |-> "429 Rate limit exceeded",
                   message |-> "Failed to create chat completion"])

\* the completion response holds a first choice with non-empty content
HasContent(data) ==
    /\ "choices" \in DOMAIN data
    /\ Len(data.choices) > 0
    /\ data.choices[1].message.content # ""

\* what complete does apart from the message it throws on a failure
CompleteBehaviour(c) ==
    /\ calls[c].issued[1].params.messages =
           (IF "options" \in DOMAIN calls[c].config
               /\ "system" \in DOMAIN calls[c].config.options
               /\ calls[c].config.options.system # ""
            THEN <<[role |-> "system", content |-> calls[c].config.options.system]>>
            ELSE << >>)
           \o <<[role |-> "user", content |-> calls[c].config.input]>>
    /\ calls[c].settled.kind = "return" =>
           calls[c].result =
               IF HasContent(calls[c].settled.value)
               THEN Return(calls[c].settled.value.choices[1].message.content)
               ELSE Throw(NewError("Invalid response format from OpenAI"))
    /\ calls[c].settled.kind = "throw" =>
           calls[c].result.kind = "throw" /\ calls[c].result.thrown.instanceofError

\* C22 as stated: complete returns the first choice's content when there is
\* one, throws 'Invalid response format from OpenAI' when there is none,
\* throws an Error with the message of the underlying error when the
\* completion fails, and sends the optional system message followed by one
\* user message.
C22_CompleteThrowsFailureMessage ==
    \A c \in Callers :
        Done(c, "complete") =>
            /\ CompleteBehaviour(c)
            /\ (calls[c].settled.kind = "throw" /\ calls[c].settled.thrown.instanceofError) =>
                   calls[c].result.thrown.message = calls[c].settled.thrown.message

\* C22, amended: as stated, except that when the completion fails with an
\* error whose message is empty, the Error thrown has the message 'Failed
\* to create completion'.
C22_CompleteThrowsNonEmptyMessage ==
    \A c \in Callers :
        Done(c, "complete") =>
            /\ CompleteBehaviour(c)
            /\ (calls[c].settled.kind = "throw" /\ calls[c].settled.thrown.instanceofError) =>
                   calls[c].result.thrown.message =
                       IF calls[c].settled.thrown.message # ""
                       THEN calls[c].settled.thrown.message
                       ELSE "Failed to create completion"

\* complete with a system message failed on a 429 and threw its message
C22_Witness ==
    /\ Done("callerA", "complete")
    /\ Len(calls["callerA"].issued[1].params.messages) = 2
    /\ calls["callerA"].settled = Throw(NewError("429 Rate limit exceeded"))
    /\ calls["callerA"].result = Throw(NewError("429 Rate limit exceeded"))

\* the answer to the user-info request carries a non-empty sub
CarriesSub(settlement) ==
    /\ settlement.kind = "return"
    /\ "data" \in DOMAIN settlement.value
    /\ "sub" \in DOMAIN settlement.value.data
    /\ settlement.value.data.sub # ""

\* the request is a proxy call of the method on the endpoint
IsRequest(request, method, endpoint) ==
    request.fn = "proxy" /\ request.config.method = method /\ request.config.endpoint = endpoint

UserIdNotFound ==
    Return(ResponseJson([success |-> FALSE, error |-> "LinkedIn user ID not found"], [status |-> 400]))

UnreadIds(mb) == {m \in DOMAIN mb : "UNREAD" \in mb[m]}

\* a call of markEmailsAsRead whose batch modification is issued and not
\* yet answered: the mailbox is in its original state
Marking(c) ==
    calls[c].pc = "await" /\ calls[c].op = "markEmailsAsRead" /\ Len(calls[c].issued) = 2

\* the flag a call of markEmailsAsRead was given (true by default)
FlagOf(c) == IF "markAsRead" \in DOMAIN calls[c].config THEN calls[c].config.markAsRead ELSE TRUE

\* the one batch modification of the call: on exactly the given ids,
\* removing UNREAD and adding nothing when the flag is true, adding UNREAD
\* and removing nothing when it is false
OneBatchModification(c) ==
    LET body == calls[c].issued[2].params.requestBody
    IN  /\ calls[c].issued[1].fn = "getConnection"
        /\ calls[c].issued[2].fn = "users.messages.batchModify"
        /\ body = IF FlagOf(c)
                  THEN [ids |-> calls[c].config.messageIds, removeLabelIds |-> <<"UNREAD">>]
                  ELSE [ids |-> calls[c].config.messageIds, addLabelIds |-> <<"UNREAD">>]

\* the mailbox after the call's modification followed by the opposite
\* marking of the same ids
RoundTrip(c) ==
    GmailEffect(GmailRequest("markEmailsAsRead",
                    [messageIds |-> calls[c].config.messageIds, markAsRead |-> ~FlagOf(c)]),
                GmailEffect(calls[c].issued[2], mailbox))

\* C24 as stated: one batch modification on the given ids, and marking
\* read then unread (or the reverse) on the same ids restores the original
\* UNREAD state.
C24_MarkRoundTripRestores ==
    \A c \in Callers :
        Marking(c) => OneBatchModification(c) /\ UnreadIds(RoundTrip(c)) = UnreadIds(mailbox)

\* C24, amended: one batch modification on the given ids; after marking
\* read then unread every given message is UNREAD, after marking unread
\* then read none of them is, whatever they were before, and nothing else
\* changes.  The original state is restored only when the given messages
\* were already in the state of the second marking.
C24_MarkLastWins ==
    \A c \in Callers :
        Marking(c) =>
            LET given == Range(calls[c].config.messageIds) \cap DOMAIN mailbox
            IN  /\ OneBatchModification(c)
                /\ UnreadIds(RoundTrip(c)) =
                       IF FlagOf(c) THEN UnreadIds(mailbox) \cup given
                       ELSE UnreadIds(mailbox) \ given
                /\ \A m \in DOMAIN mailbox :
                       RoundTrip(c)[m] \ {"UNREAD"} = mailbox[m] \ {"UNREAD"}
                /\ DOMAIN RoundTrip(c) = DOMAIN mailbox

\* m2, which was read, is being marked as read together with m1: marking
\* both unread afterwards leaves m2 unread
C24_Witness ==
    /\ Marking("callerA")
    /\ calls["callerA"].config = [messageIds |-> <<"m1", "m2">>]
    /\ mailbox = InitialMailbox
    /\ UnreadIds(RoundTrip("callerA")) = {"m1", "m2"}

\* C25: for a record whose tag is none of the four, validateConnection
\* returns exactly {isValid: false, error: 'Unknown authentication type'}:
\* it does not throw and does not report the record valid, and getAuthToken
\* on the same lookup result throws, so both find the record unusable.
C25_UnknownTagInvalid ==
    \A c \in Callers :
        (DoneWithRecord(c, "validateConnection") /\ ~HasKnownTag(RecordOf(c))) =>
            /\ calls[c].result =
                   Return([isValid |-> FALSE, error |-> "Unknown authentication type"])
            /\ getAuthTokenOutcome(calls[c].settled).kind = "throw"

C25_Witness ==
    /\ DoneWithRecord("callerA", "validateConnection")
    /\ RecordOf("callerA") = [type |-> "oauth2", access_token |-> "tok123"]
    /\ calls["callerA"].result =
           Return([isValid |-> FALSE, error |-> "Unknown authentication type"])

\* what getAuthToken made of record r is a usable token: a non-empty
\* string, and for BASIC a pair whose username and password are non-empty
UsableToken(r, out) ==
    /\ out.kind = "return"
    /\ IF r.type = "BASIC"
       THEN /\ out.value.username \notin {"", Undefined}
            /\ out.value.password \notin {"", Undefined}
       ELSE out.value \notin {"", Undefined}

\* C26: validateConnection is a sound precheck for getAuthToken.  When a
\* validateConnection call has returned isValid: true, getAuthToken on the
\* same lookup result returns a usable token; and when a getAuthToken call
\* has returned a token that is not usable, validateConnection on the same
\* lookup result returns isValid: false.
C26_ValidImpliesToken ==
    \A c \in Callers :
        /\ (Done(c, "validateConnection") /\ calls[c].result.value.isValid) =>
               /\ calls[c].settled.kind = "return"
               /\ HasKnownTag(RecordOf(c))
               /\ UsableToken(RecordOf(c), getAuthTokenOutcome(calls[c].settled))
        /\ (DoneWithRecord(c, "getAuthToken") /\ calls[c].result.kind = "return"
                /\ ~UsableToken(RecordOf(c), calls[c].result)) =>
               ~validateConnectionOutcome(calls[c].settled).value.isValid

\* an OAuth1 record was found valid, and getAuthToken gives its token
C26_Witness ==
    /\ DoneWithRecord("callerA", "validateConnection")
    /\ RecordOf("callerA") = [type |-> "OAUTH1", oauth_token |-> "otok", oauth_token_secret |-> "osecret"]
    /\ calls["callerA"].result = Return([isValid |-> TRUE])
    /\ getAuthTokenOutcome(calls["callerA"].settled) = Return("otok")

\* the three methods of the base class that read the connection
LookupMethods == {"getConnCredentials", "getAuthToken", "validateConnection"}

\* C27: after every step, a call of getConnCredentials, getAuthToken or
\* validateConnection has made exactly one interaction with the outside, a
\* connection lookup, and a call of proxyRequest exactly one, a proxy call;
\* and a step of such a call changes nothing but the call itself: not the
\* environment, the client, the instances, the credential store or the
\* mailbox.
C27_OneExternalCall ==
    [][\A c \in Callers :
          /\ (calls'[c].pc # "idle" /\ calls'[c].op \in LookupMethods) =>
                 /\ Len(calls'[c].issued) = 1
                 /\ calls'[c].issued[1].fn = "getConnection"
          /\ (calls'[c].pc # "idle" /\ calls'[c].op = "proxyRequest") =>
                 /\ Len(calls'[c].issued) = 1
                 /\ calls'[c].issued[1].fn = "proxy"
          /\ (/\ calls'[c] # calls[c]
              /\ \/ calls[c].pc # "idle" /\ calls[c].op \in LookupMethods \cup {"proxyRequest"}
                 \/ calls'[c].pc # "idle" /\ calls'[c].op \in LookupMethods \cup {"proxyRequest"}) =>
                 <<env, client, instances, store, mailbox>>' = <<env, client, instances, store, mailbox>>
      ]_vars

\* a validateConnection call and a proxyRequest call have both completed,
\* each after its one interaction
C27_Witness ==
    /\ Done("callerA", "validateConnection")
    /\ calls["callerA"].result = Return([isValid |-> TRUE])
    /\ Len(calls["callerA"].issued) = 1 /\ calls["callerA"].issued[1].fn = "getConnection"
    /\ Done("callerB", "proxyRequest")
    /\ calls["callerB"].result.kind = "return"
    /\ Len(calls["callerB"].issued) = 1 /\ calls["callerB"].issued[1].fn = "proxy"

====
